---- MODULE Spec2Model ----
(***************************************************************************)
(* The saga orchestration core of node-design-pattern-example:             *)
(* SagaContext, SagaStep, Saga and SagaOrchestrator.                        *)
(*                                                                         *)
(* A call of SagaOrchestrator.executeSaga is a "run".  JavaScript runs one *)
(* job at a time, so a run is a sequence of atomic pieces separated by its *)
(* awaits; pieces of different runs interleave.  The forward actions and   *)
(* the compensations of the steps are the caller's functions: each         *)
(* invocation is recorded, and its settling (return or throw) is an        *)
(* action of the environment.                                              *)
(***************************************************************************)
EXTENDS Integers, Sequences, FiniteSets, TLC

\* Bounds of the model.
MaxSteps == 3
MaxCalls == 2
MaxCapacity == 2
MaxLimit == 3
\* of the specification of overlapping calls
MaxConcurrent == 2
MaxConcurrentSteps == 1
MaxConcurrentCalls == 2
\* of the specification of long histories
MaxHistorySteps == 1
MaxHistoryCalls == 4
\* of the specification of two sagas under one name
MaxRegistrySteps == 1
MaxRegistrations == 2
MaxRegistryCalls == 2
\* SpecPayment: the calls of PaymentProcessingSaga
MaxPaymentCalls == 2
\* SpecStep: the steps a caller constructs, and its calls of their methods
MaxStepSteps == 2
MaxStepCalls == 3
\* SpecContext: the calls of methods of the Context
MaxOperations == 3
\* SpecCaller: the calls of the caller of a Context
MaxCallerOperations == 4
\* SpecBuild: the steps added to a saga
MaxBuildSteps == 2
\* SpecInventory: the calls of InventoryService
MaxServiceCalls == 3
\* SpecSubject: the observers attached to a Subject
MaxAttached == 3

SagaIds == {"s1", "s2"}
SagaNames == {"PaymentProcessing", "Other"}
StepNames == <<"A", "B", "C", "D", "E", "F", "G", "H">>
Durations == {0, 1}
RunIds == 1..MaxConcurrent
Capacities == 1..MaxCapacity
DefaultMaxHistorySize == 100

VARIABLES
    steps,              \* Saga.steps of every Saga object: a sequence of SagaStep
    sagas,              \* SagaOrchestrator.sagas: name -> Saga object
    executionHistory,   \* SagaOrchestrator.executionHistory
    maxHistorySize,     \* SagaOrchestrator.maxHistorySize
    runs,               \* the executeSaga calls in flight: position, Context, calls made
    calls,              \* the number of executeSaga calls made so far
    settled,            \* the executeSaga call that has settled since the last call
                        \* was made, as its caller sees it
    recorded,           \* the number of records pushed since the history was last emptied
    registrations,      \* the Saga objects registerSaga was called with, by name, in
                        \* the order of the calls
    services,           \* the services a PaymentProcessingSaga constructs and keeps
    caller,             \* the objects a caller of the Context holds: the initialData
                        \* it passed, and what getAll and getExecutedSteps gave it
    serviceCalls,       \* the calls made of InventoryService by a caller of its own,
                        \* in the order they were made: in their delay or settled
    subject             \* a Subject of observer/Subject.js and its last notify

vars == <<steps, sagas, executionHistory, maxHistorySize, runs, calls, settled, recorded,
          registrations, services, caller, serviceCalls,
          subject>>

\* JavaScript's null for an Error reference, a message or a result.
Null == <<>>
\* Map.get of a name that was never set.
NoSaga == "undefined"

\* new Error(message): a reference to an object with a message.
Error(message) == <<message>>
MessageOf(error) == error[1]

\* What a caller's function throws: an Error of its own, or null, as the
\* promise of an async function that is rejected without a reason gives
\* (undefined behaves as null does here).
Throwables == {"Error", "null"}
ThrownBy(throwable, error) == IF throwable = "Error" THEN error ELSE Null

\* `${error.message}` in a catch: reading the message of null throws a
\* TypeError, which leaves the catch in place of the error caught.
NoMessageError == Error(<<"Cannot read properties of null", "message">>)
AfterLogging(error) == IF error = Null THEN NoMessageError ELSE error

ActionError(name) == Error(<<"action failed", name>>)
CompensationError(name) == Error(<<"compensation failed", name>>)
NotFoundError(sagaName) == Error(<<"Saga not found", sagaName>>)
ResultOf(name) == <<"result", name>>

\* An object without properties, and the objects a caller passes to
\* executeSaga as initialData: the default {}, and one that has a property
\* named as a step is.
EmptyObject == <<>>
InitialDatas == {EmptyObject, [A |-> <<"initial">>]}
\* The value of a property an object does not have.
Undefined == <<"undefined">>
\* What the forward action of a step stores in the Context it is given, under
\* the name of the step: a value made in that call, as the order, the
\* reservation and the payment of PaymentProcessingSaga are.
ValueOf(name, call) == <<"value", name, call>>

----------------------------------------------------------------------------
\* SagaStep

NewSagaStep(name, hasCompensation) ==
    [name |-> name, hasCompensation |-> hasCompensation, executed |-> FALSE,
     compensated |-> FALSE, result |-> Null, error |-> Null]

\* The step is as the constructor of SagaStep leaves it.
Fresh(step) == step = NewSagaStep(step.name, step.hasCompensation)
AllFresh(stepSeq) == \A i \in DOMAIN stepSeq : Fresh(stepSeq[i])

isExecuted(step) == step.executed

\* A faulty reset: it clears the flags and leaves the result and the error.
StepReset_KeepsResult(step) ==
    [step EXCEPT !.executed = FALSE, !.compensated = FALSE]

\* A faulty reset: it clears executed, the result and the error only.
StepReset_KeepsCompensated(step) ==
    [step EXCEPT !.executed = FALSE, !.result = Null, !.error = Null]

StepReset(step) ==
    [step EXCEPT !.executed = FALSE, !.compensated = FALSE,
                 !.result = Null, !.error = Null]

----------------------------------------------------------------------------
\* Subject of observer/Subject.js

\* What the update of an observer does when it is called: it returns, or it
\* throws an Error or null.
Updates == {"returns"} \cup Throwables
UpdateError(observerId) == Error(<<"update failed", observerId>>)

\* new Subject(name).  observers is the Map in the order of its entries, each
\* an id and what the observer's update does; notified is not a field of the
\* code's Subject: it is empty until notify is called and then holds, of the
\* last call, the observers there were, the event type and the ids whose
\* update was called, in order, and what the call threw.
NewSubject == [observers |-> <<>>, observerIdCounter |-> 0, notified |-> <<>>]

\* attach(observer)
attach(subj, update) ==
    LET observerId == subj.observerIdCounter + 1 IN
    [subj EXCEPT !.observerIdCounter = observerId,
                 !.observers = Append(@, [observerId |-> observerId,
                                          update |-> update])]

\* detach(observerId)
detach(subj, observerId) ==
    LET Others(entry) == entry.observerId # observerId IN
    [subj EXCEPT !.observers = SelectSeq(@, Others)]

\* detachAll()
detachAll(subj) == [subj EXCEPT !.observers = <<>>]

\* The for loop of notify from entry i on: updated lists the ids whose update
\* was called.  What an update throws is caught and its message logged; the
\* error of the logging leaves the loop and notify.
RECURSIVE NotifyLoop(_, _, _)
NotifyLoop(observers, i, updated) ==
    IF i > Len(observers)
    THEN [updated |-> updated, thrown |-> Null]
    ELSE LET observerId == observers[i].observerId
             called == Append(updated, observerId)
             error == ThrownBy(observers[i].update, UpdateError(observerId))
         IN  IF observers[i].update = "returns"
             THEN NotifyLoop(observers, i + 1, called)
             ELSE IF AfterLogging(error) # error
             THEN [updated |-> called, thrown |-> AfterLogging(error)]
             ELSE NotifyLoop(observers, i + 1, called)

\* notify(eventType, data)
notify(subj, eventType) ==
    LET loop == NotifyLoop(subj.observers, 1, <<>>) IN
    [subj EXCEPT !.notified = <<[observers |-> subj.observers,
                                 eventType |-> eventType,
                                 updated |-> loop.updated,
                                 thrown |-> loop.thrown]>>]

----------------------------------------------------------------------------
\* SagaContext

\* statuses is not a field of the code's Context: it lists the values the
\* status field was given, in order, so that a status that is replaced within
\* one piece of a run is still seen.
NewSagaContext(id, initialData) ==
    [data |-> initialData,
     sagaId |-> id, executedSteps |-> <<>>, status |-> "PENDING",
     error |-> Null, startTime |-> FALSE, endTime |-> FALSE,
     statuses |-> <<"PENDING">>]

\* set(key, value)
set(context, key, value) ==
    [context EXCEPT !.data =
        [k \in DOMAIN @ \cup {key} |-> IF k = key THEN value ELSE @[k]]]

\* get(key)
get(context, key) ==
    IF key \in DOMAIN context.data THEN context.data[key] ELSE Undefined

\* object[key] = value
Assign(object, key, value) ==
    [k \in DOMAIN object \cup {key} |-> IF k = key THEN value ELSE object[k]]

\* { ...object } and [ ...array ]: a new object or array with the properties
\* or elements of the old one.  shared tells whether what is handed over is
\* the very object it was made from, so that a change of the one is a change
\* of the other.
Spread(object) == [value |-> object, shared |-> FALSE]
\* Handing over the object itself.
Same(object) == [value |-> object, shared |-> TRUE]

\* A faulty constructor: this.data = initialData
DataOf_SameObject(initialData) == Same(initialData)

\* this.data = { ...initialData } of the constructor
DataOf(initialData) == Spread(initialData)

\* A faulty getAll: return this.data
getAll_ReturnsData(context) == Same(context.data)

\* getAll()
getAll(context) == Spread(context.data)

\* A faulty getExecutedSteps: return this.executedSteps
getExecutedSteps_ReturnsLog(context) == Same(context.executedSteps)

\* getExecutedSteps()
getExecutedSteps(context) == Spread(context.executedSteps)

\* What a caller of a Context holds: the initialData it passed to the
\* constructor, the object getAll gave it and the list getExecutedSteps gave
\* it (each in a tuple, empty while it has none), and for each whether it is
\* the object that the Context keeps.
NoObjects ==
    [initialData |-> <<>>, dataShared |-> FALSE,
     snapshot |-> <<>>, snapshotShared |-> FALSE,
     list |-> <<>>, listShared |-> FALSE]

\* setStatus(status)
setStatus(context, status) ==
    [context EXCEPT !.status = status, !.statuses = Append(@, status)]

\* A faulty markStepExecuted: this.executedSteps.unshift({...})
markStepExecuted_NewestFirst(context, stepName, result) ==
    [context EXCEPT !.executedSteps =
        <<[stepName |-> stepName, result |-> result]>> \o @]

markStepExecuted(context, stepName, result) ==
    [context EXCEPT !.executedSteps =
        Append(@, [stepName |-> stepName, result |-> result])]

markStarted(context) ==
    [context EXCEPT !.startTime = TRUE, !.status = "IN_PROGRESS",
                    !.statuses = Append(@, "IN_PROGRESS")]

markCompleted(context) ==
    [context EXCEPT !.endTime = TRUE, !.status = "COMPLETED",
                    !.statuses = Append(@, "COMPLETED")]

markFailed(context, error) ==
    [context EXCEPT !.endTime = TRUE, !.status = "FAILED", !.error = error,
                    !.statuses = Append(@, "FAILED")]

\* A faulty markCompensating: it leaves the status as it is.
markCompensating_KeepsStatus(context) == context

markCompensating(context) ==
    [context EXCEPT !.status = "COMPENSATING",
                    !.statuses = Append(@, "COMPENSATING")]

\* A faulty markCompensated: it sets the end time and leaves the status.
markCompensated_KeepsStatus(context) == [context EXCEPT !.endTime = TRUE]

markCompensated(context) ==
    [context EXCEPT !.endTime = TRUE, !.status = "COMPENSATED",
                    !.statuses = Append(@, "COMPENSATED")]

----------------------------------------------------------------------------
\* The services of PaymentProcessingSaga

\* JavaScript values in the data of a Context and in the order a caller
\* passes: an id a service made, a number, an object and an array.
Id(kind, n) == <<kind, n>>
Number(n) == <<"number", n>>
Object(properties) == <<"object", properties>>
Array(elements) == <<"array", elements>>
\* if (value), for these values
Truthy(value) == value # Undefined
\* value && value.key
HasProperty(value, key) == Truthy(value) /\ key \in DOMAIN value[2]

\* What calling an async function of a service gives: the error it throws or
\* Null, the value it returns, and the services as it leaves them.
Returns(value, svc) == [error |-> Null, value |-> value, services |-> svc]
Throws(error, svc) == [error |-> error, value |-> Undefined, services |-> svc]

\* InventoryService.initializeInventory(): product -> stock
InitialInventory ==
    [PROD_001 |-> 10, PROD_002 |-> 50, PROD_003 |-> 30, PROD_004 |-> 5]

\* new OrderService(), new InventoryService(), new PaymentService(),
\* new ShippingService(), new NotificationService().  The Maps of the
\* services are sequences: the id a service makes is the position of the
\* entry, as every id the code makes is new.
NewServices ==
    [orders |-> <<>>, inventory |-> InitialInventory, reservations |-> <<>>,
     payments |-> <<>>, failureRate |-> 0, shipments |-> <<>>,
     notifications |-> <<>>]

\* Map.get(id) finds an entry
Has(entries, id) == Truthy(id) /\ id[2] \in 1..Len(entries)

\* OrderService.createOrder(orderData)
createOrder(svc, orderData) ==
    LET orderId == Id("ORD", Len(svc.orders) + 1)
        order == [orderId |-> orderId, status |-> "PENDING"]
    IN  Returns(Object(order), [svc EXCEPT !.orders = Append(@, order)])

\* OrderService.confirmOrder(orderId)
confirmOrder(svc, orderId) ==
    IF ~Has(svc.orders, orderId)
    THEN Throws(Error(<<"Order not found", orderId>>), svc)
    ELSE Returns(Object([svc.orders[orderId[2]] EXCEPT !.status = "CONFIRMED"]),
                 [svc EXCEPT !.orders[orderId[2]].status = "CONFIRMED"])

\* OrderService.cancelOrder(orderId)
cancelOrder(svc, orderId) ==
    IF ~Has(svc.orders, orderId)
    THEN Throws(Error(<<"Order not found", orderId>>), svc)
    ELSE Returns(Object([svc.orders[orderId[2]] EXCEPT !.status = "CANCELLED"]),
                 [svc EXCEPT !.orders[orderId[2]].status = "CANCELLED"])

\* product.stock -= item.quantity, for the items from position i on
RECURSIVE ReserveItems(_, _, _)
ReserveItems(inventory, items, i) ==
    IF i > Len(items)
    THEN inventory
    ELSE ReserveItems(
            [inventory EXCEPT ![items[i].productId] = @ - items[i].quantity],
            items, i + 1)

\* if (product) product.stock += item.quantity, for the items from position i on
RECURSIVE ReleaseItems(_, _, _)
ReleaseItems(inventory, items, i) ==
    IF i > Len(items)
    THEN inventory
    ELSE ReleaseItems(
            IF items[i].productId \in DOMAIN inventory
            THEN [inventory EXCEPT ![items[i].productId] = @ + items[i].quantity]
            ELSE inventory,
            items, i + 1)

\* A faulty reserveInventory: one loop, which takes the items before the
\* first that is refused and then throws.
reserveInventory_ThrowsHalfWay(svc, orderId, items) ==
    LET unknown(i) == items[i].productId \notin DOMAIN svc.inventory
        short(i) == svc.inventory[items[i].productId] < items[i].quantity
        refused == {i \in 1..Len(items) : unknown(i) \/ short(i)}
        first == CHOOSE i \in refused : \A j \in refused : i <= j
        reservation == [reservationId |-> Id("RES", Len(svc.reservations) + 1),
                        orderId |-> orderId, items |-> items, status |-> "RESERVED"]
    IN  IF refused # {}
        THEN Throws(Error(<<IF unknown(first) THEN "Product not found"
                                              ELSE "Insufficient stock",
                            items[first].productId>>),
                    [svc EXCEPT !.inventory =
                        ReserveItems(@, SubSeq(items, 1, first - 1), 1)])
        ELSE Returns(Object(reservation),
                     [svc EXCEPT !.inventory = ReserveItems(@, items, 1),
                                 !.reservations = Append(@, reservation)])

\* InventoryService.reserveInventory(orderId, items), after its delay: the
\* first loop throws at the first item that is unknown or short of stock.
reserveInventory(svc, orderId, items) ==
    LET unknown(i) == items[i].productId \notin DOMAIN svc.inventory
        short(i) == svc.inventory[items[i].productId] < items[i].quantity
        refused == {i \in 1..Len(items) : unknown(i) \/ short(i)}
        first == CHOOSE i \in refused : \A j \in refused : i <= j
        reservation == [reservationId |-> Id("RES", Len(svc.reservations) + 1),
                        orderId |-> orderId, items |-> items, status |-> "RESERVED"]
    IN  IF refused # {}
        THEN Throws(Error(<<IF unknown(first) THEN "Product not found"
                                              ELSE "Insufficient stock",
                            items[first].productId>>), svc)
        ELSE Returns(Object(reservation),
                     [svc EXCEPT !.inventory = ReserveItems(@, items, 1),
                                 !.reservations = Append(@, reservation)])

\* A faulty releaseInventory: it marks the reservation and leaves the stock.
releaseInventory_KeepsStock(svc, reservationId) ==
    IF ~Has(svc.reservations, reservationId)
    THEN Throws(Error(<<"Reservation not found", reservationId>>), svc)
    ELSE Returns(Object([status |-> "RELEASED"]),
                 [svc EXCEPT !.reservations[reservationId[2]].status = "RELEASED"])

\* A faulty releaseInventory: it does not look at the status.
releaseInventory_ReleasesAgain(svc, reservationId) ==
    IF ~Has(svc.reservations, reservationId)
    THEN Throws(Error(<<"Reservation not found", reservationId>>), svc)
    ELSE Returns(Object([status |-> "RELEASED"]),
                 [svc EXCEPT !.inventory = ReleaseItems(
                                @, svc.reservations[reservationId[2]].items, 1),
                             !.reservations[reservationId[2]].status = "RELEASED"])

\* InventoryService.releaseInventory(reservationId), after its delay
releaseInventory(svc, reservationId) ==
    IF ~Has(svc.reservations, reservationId)
    THEN Throws(Error(<<"Reservation not found", reservationId>>), svc)
    ELSE LET reservation == svc.reservations[reservationId[2]] IN
         IF reservation.status = "RELEASED"
         THEN Returns(Object([status |-> "ALREADY_RELEASED"]), svc)
         ELSE Returns(Object([status |-> "RELEASED"]),
                      [svc EXCEPT !.inventory = ReleaseItems(@, reservation.items, 1),
                                  !.reservations[reservationId[2]].status = "RELEASED"])

\* PaymentService.setFailureRate(rate), for the rates 0 and 1
setFailureRate(svc, rate) == [svc EXCEPT !.failureRate = rate]

\* PaymentService.processPayment(orderId, amount, paymentMethod), after its
\* delay.  Math.random() is at least 0 and less than 1: it is below a failure
\* rate of 1 and not below one of 0.
processPayment(svc, orderId, amount, paymentMethod) ==
    LET payment == [paymentId |-> Id("PAY", Len(svc.payments) + 1),
                    orderId |-> orderId, status |-> "COMPLETED"]
    IN  IF svc.failureRate = 1
        THEN Throws(Error(<<"Payment gateway timeout">>), svc)
        ELSE IF ~HasProperty(paymentMethod, "cardNumber")
        THEN Throws(Error(<<"Invalid payment method">>), svc)
        ELSE IF Truthy(amount) /\ amount[2] <= 0
        THEN Throws(Error(<<"Invalid payment amount">>), svc)
        ELSE Returns(Object(payment), [svc EXCEPT !.payments = Append(@, payment)])

\* PaymentService.refundPayment(paymentId), after its delay
refundPayment(svc, paymentId) ==
    IF ~Has(svc.payments, paymentId)
    THEN Throws(Error(<<"Payment not found", paymentId>>), svc)
    ELSE IF svc.payments[paymentId[2]].status = "REFUNDED"
    THEN Returns(Object([status |-> "ALREADY_REFUNDED"]), svc)
    ELSE Returns(Object([status |-> "REFUNDED"]),
                 [svc EXCEPT !.payments[paymentId[2]].status = "REFUNDED"])

\* ShippingService.createShipment(orderId, shippingAddress, items), after its delay
createShipment(svc, orderId, shippingAddress, items) ==
    LET shipment == [shipmentId |-> Id("SHIP", Len(svc.shipments) + 1),
                     orderId |-> orderId, status |-> "PENDING"]
    IN  IF ~(HasProperty(shippingAddress, "street")
             /\ HasProperty(shippingAddress, "city"))
        THEN Throws(Error(<<"Invalid shipping address">>), svc)
        ELSE Returns(Object(shipment), [svc EXCEPT !.shipments = Append(@, shipment)])

\* ShippingService.cancelShipment(shipmentId), after its delay
cancelShipment(svc, shipmentId) ==
    IF ~Has(svc.shipments, shipmentId)
    THEN Throws(Error(<<"Shipment not found", shipmentId>>), svc)
    ELSE IF svc.shipments[shipmentId[2]].status = "CANCELLED"
    THEN Returns(Object([status |-> "ALREADY_CANCELLED"]), svc)
    ELSE Returns(Object([status |-> "CANCELLED"]),
                 [svc EXCEPT !.shipments[shipmentId[2]].status = "CANCELLED"])

\* NotificationService.sendOrderConfirmation, sendPaymentConfirmation,
\* sendOrderCancellation and sendRefundNotification: each pushes a notification.
send(svc, type, about) == [svc EXCEPT !.notifications = Append(@, <<type, about>>)]

\* What the action or the compensation of a step gives: as a call of a
\* service, and the Context as it leaves it.
Outcome(call, context) ==
    [error |-> call.error, value |-> call.value, services |-> call.services,
     context |-> context]

\* The steps buildSteps adds, in order; ConfirmOrder has no compensation.
PaymentSteps ==
    <<NewSagaStep("CreateOrder", TRUE), NewSagaStep("ReserveInventory", TRUE),
      NewSagaStep("ProcessPayment", TRUE), NewSagaStep("CreateShipment", TRUE),
      NewSagaStep("ConfirmOrder", FALSE), NewSagaStep("SendNotifications", TRUE)>>

\* items of the order, as reserveInventory reads them
ItemsOf(context) == get(context, "items")[2]

\* The forward action of the step called name: it stores what the service
\* returned in the Context, and nothing when the service threw.
PaymentAction(name, svc, context) ==
    LET orderId == get(context, "orderId")
        stored(call, idKey, id, key) ==
            IF call.error # Null
            THEN Outcome(call, context)
            ELSE Outcome(call, set(set(context, idKey, call.value[2][id]),
                                   key, call.value))
    IN  CASE name = "CreateOrder" ->
                stored(createOrder(svc, context.data), "orderId", "orderId", "order")
          [] name = "ReserveInventory" ->
                stored(reserveInventory(svc, orderId, ItemsOf(context)),
                       "reservationId", "reservationId", "reservation")
          [] name = "ProcessPayment" ->
                stored(processPayment(svc, orderId, get(context, "totalAmount"),
                                      get(context, "paymentMethod")),
                       "paymentId", "paymentId", "payment")
          [] name = "CreateShipment" ->
                stored(createShipment(svc, orderId, get(context, "shippingAddress"),
                                      ItemsOf(context)),
                       "shipmentId", "shipmentId", "shipment")
          [] name = "ConfirmOrder" ->
                LET call == confirmOrder(svc, orderId) IN
                IF call.error # Null
                THEN Outcome(call, context)
                ELSE Outcome(call, set(context, "order", call.value))
          [] name = "SendNotifications" ->
                Outcome(Returns(Object([status |-> "NOTIFICATIONS_SENT"]),
                                send(send(svc, "ORDER_CONFIRMATION", orderId),
                                     "PAYMENT_CONFIRMATION", get(context, "paymentId"))),
                        context)

\* The compensation of the step called name: it undoes what the id in the
\* Context names, and nothing when the Context has no such id.
PaymentCompensation(name, svc, context) ==
    LET undo(id, call) ==
            IF Truthy(id)
            THEN Outcome([call EXCEPT !.value = Undefined], context)
            ELSE Outcome(Returns(Undefined, svc), context)
        orderId == get(context, "orderId")
        reservationId == get(context, "reservationId")
        paymentId == get(context, "paymentId")
        shipmentId == get(context, "shipmentId")
        cancelled == send(svc, "ORDER_CANCELLATION", orderId)
    IN  CASE name = "CreateOrder" -> undo(orderId, cancelOrder(svc, orderId))
          [] name = "ReserveInventory" ->
                undo(reservationId, releaseInventory(svc, reservationId))
          [] name = "ProcessPayment" -> undo(paymentId, refundPayment(svc, paymentId))
          [] name = "CreateShipment" -> undo(shipmentId, cancelShipment(svc, shipmentId))
          [] name = "SendNotifications" ->
                Outcome(Returns(Undefined,
                                IF Truthy(paymentId)
                                THEN send(cancelled, "REFUND", paymentId)
                                ELSE cancelled),
                        context)

----------------------------------------------------------------------------
\* One executeSaga call.  call is its number among the calls made; pc is the await the call is suspended at; context
\* is empty until Saga.execute has made the Context.  idx is the position of
\* the for loop of Saga.execute, executedSteps and ci are the list and the
\* position of the for loop of Saga.compensate, thrown is the error on its way
\* to a catch.  What the caller's functions saw of the call: actionCalls and
\* compensationCalls list the steps whose forward action and compensation
\* were invoked, in order, and received the sagaId of the Context each was
\* given; visited lists the steps whose compensate was called; succeeded and compensationFailures list the steps
\* whose forward action returned and whose compensation threw; raised lists
\* what the forward actions threw, compensations the steps whose compensation
\* returned.  before is the services as they were when the call was made,
\* fresh whether the steps of the saga were then as newly constructed ones are.

IdleRun ==
    [pc |-> "idle", call |-> 0, sagaName |-> "", initialData |-> EmptyObject,
     saga |-> NoSaga, context |-> <<>>, received |-> <<>>, visited |-> <<>>,
     idx |-> 0, thrown |-> Null, executedSteps |-> <<>>, ci |-> 0,
     actionCalls |-> <<>>, compensationCalls |-> <<>>, succeeded |-> <<>>,
     compensationFailures |-> <<>>, raised |-> <<>>, compensations |-> <<>>,
     outcome |-> "none", rejection |-> Null, before |-> <<>>,
     fresh |-> FALSE]

InFlight(run) == run.pc # "idle"

\* The state after new Saga(name) and new SagaOrchestrator(), with
\* maxHistorySize one of capacities.  The time stamps of the Context are a
\* flag: set or not.
Constructed(capacities) ==
    /\ steps = [s \in SagaIds |-> <<>>]
    /\ sagas = [n \in SagaNames |-> NoSaga]
    /\ executionHistory = <<>>
    /\ maxHistorySize \in capacities
    /\ runs = [r \in RunIds |-> IdleRun]
    /\ calls = 0
    /\ settled = IdleRun
    /\ recorded = 0
    /\ registrations = [n \in SagaNames |-> <<>>]
    /\ services = NewServices
    /\ caller = NoObjects
    /\ serviceCalls = <<>>
    /\ subject = NewSubject

\* The constructor sets maxHistorySize to 100.
Init == Constructed({DefaultMaxHistorySize})

\* maxHistorySize is a public field that recordExecution reads on every call:
\* a caller has set it to a small capacity, so that a few calls reach it.
InitSmallHistory == Constructed(Capacities)

----------------------------------------------------------------------------
\* Saga

\* Saga.addStep(name, action, compensation).  A saga is built before it is
\* registered and run: the step list does not change once calls are made.
AddStep(s, name, hasCompensation) ==
    /\ \A n \in SagaNames : sagas[n] # s
    /\ calls = 0
    /\ steps' = [steps EXCEPT ![s] = Append(@, NewSagaStep(name, hasCompensation))]
    /\ UNCHANGED <<subject, serviceCalls, caller, services, sagas, registrations, executionHistory,
                   maxHistorySize, runs, calls, settled, recorded>>

\* SagaStep.execute up to its await: the forward action of step i is invoked.
CallStepExecute(run, i) ==
    [run EXCEPT !.pc = "action", !.idx = i, !.actionCalls = Append(@, i),
                !.received = Append(@, run.context[1].sagaId)]

\* A faulty for loop of Saga.execute: it stops one step early.
SagaExecuteLoop_StopsEarly(run, n, i) ==
    IF i < n
    THEN CallStepExecute(run, i)
    ELSE [run EXCEPT !.context = <<markCompleted(@[1])>>, !.pc = "returned"]

\* A faulty for loop of Saga.execute: it does not await step.execute, and
\* the action of the next step is invoked with that of step i.
SagaExecuteLoop_DoesNotAwait(run, n, i) ==
    IF i < n
    THEN [CallStepExecute(run, i) EXCEPT !.actionCalls = Append(@, i + 1)]
    ELSE IF i = n
         THEN CallStepExecute(run, i)
         ELSE [run EXCEPT !.context = <<markCompleted(@[1])>>, !.pc = "returned"]

\* The for loop of Saga.execute, arriving at step i of n.
SagaExecuteLoop(run, n, i) ==
    IF i <= n
    THEN CallStepExecute(run, i)
    ELSE [run EXCEPT !.context = <<markCompleted(@[1])>>, !.pc = "returned"]

\* this.steps.filter(step => step.isExecuted()), as positions in this.steps
ExecutedSteps(stepSeq) ==
    SelectSeq([i \in 1..Len(stepSeq) |-> i], LAMBDA i : isExecuted(stepSeq[i]))

\* A faulty SagaStep.compensate: it throws when the step has no compensation.
CallStepCompensate_ThrowsWithoutCompensation(run, stepSeq, ci) ==
    LET step == stepSeq[run.executedSteps[ci]]
        called == [run EXCEPT !.ci = ci, !.visited = Append(@, run.executedSteps[ci])]
    IN  IF ~step.executed
        THEN [called EXCEPT !.pc = "compDone"]
        ELSE IF ~step.hasCompensation
             THEN [called EXCEPT !.pc = "compFailed",
                                 !.thrown = CompensationError(step.name),
                                 !.compensationFailures =
                                        Append(@, run.executedSteps[ci])]
             ELSE [called EXCEPT !.pc = "compensation",
                                 !.compensationCalls =
                                        Append(@, run.executedSteps[ci]),
                                 !.received = Append(@, run.context[1].sagaId)]

\* A faulty SagaStep.compensate: it does not look at executed.
CallStepCompensate_IgnoresExecuted(run, stepSeq, ci) ==
    LET step == stepSeq[run.executedSteps[ci]]
        called == [run EXCEPT !.ci = ci, !.visited = Append(@, run.executedSteps[ci])]
    IN  IF ~step.hasCompensation
        THEN [called EXCEPT !.pc = "compDone"]
        ELSE [called EXCEPT !.pc = "compensation",
                            !.compensationCalls = Append(@, run.executedSteps[ci]),
                            !.received = Append(@, run.context[1].sagaId)]

\* SagaStep.compensate up to its await, on executedSteps[ci].
CallStepCompensate(run, stepSeq, ci) ==
    LET step == stepSeq[run.executedSteps[ci]]
        called == [run EXCEPT !.ci = ci, !.visited = Append(@, run.executedSteps[ci])]
    IN  IF ~step.executed \/ ~step.hasCompensation
        THEN [called EXCEPT !.pc = "compDone"]
        ELSE [called EXCEPT !.pc = "compensation",
                            !.compensationCalls = Append(@, run.executedSteps[ci]),
                            !.received = Append(@, run.context[1].sagaId)]

\* The for loop of Saga.compensate, arriving at executedSteps[ci].
SagaCompensateLoop(run, stepSeq, ci) ==
    IF ci >= 1
    THEN CallStepCompensate(run, stepSeq, ci)
    ELSE [run EXCEPT !.context = <<markCompensated(@[1])>>, !.pc = "returned"]

\* Saga.compensate(context) up to its first await.
SagaCompensate(run, stepSeq) ==
    LET marked == [run EXCEPT !.context = <<markCompensating(@[1])>>,
                              !.executedSteps = ExecutedSteps(stepSeq)]
    IN SagaCompensateLoop(marked, stepSeq, Len(marked.executedSteps))

\* A faulty Saga.execute: the Saga object keeps one Context, and a run that
\* starts while another run of the saga is in flight uses the same one.
SagaExecute_KeepsContext(run, stepSeq, id, initialData) ==
    LET others == {r \in RunIds : InFlight(runs[r]) /\ runs[r].saga = run.saga}
        context == IF others = {}
                   THEN markStarted(NewSagaContext(id, initialData))
                   ELSE runs[CHOOSE r \in others : TRUE].context[1]
    IN  SagaExecuteLoop([run EXCEPT !.context = <<context>>], Len(stepSeq), 1)

\* A faulty Saga.execute: it takes a saga without steps for a failure.
SagaExecute_RejectsEmpty(run, stepSeq, id, initialData) ==
    LET context == markStarted(NewSagaContext(id, initialData)) IN
    IF stepSeq = <<>>
    THEN SagaCompensate(
            [run EXCEPT !.context = <<markFailed(context, Error(<<"no steps">>))>>],
            stepSeq)
    ELSE SagaExecuteLoop([run EXCEPT !.context = <<context>>], Len(stepSeq), 1)

\* Saga.execute(initialData) up to its first await.  id is the sagaId that
\* generateSagaId gives the new Context.
SagaExecute(run, stepSeq, id, initialData) ==
    SagaExecuteLoop(
        [run EXCEPT !.context = <<markStarted(NewSagaContext(id, initialData))>>],
        Len(stepSeq), 1)

\* Saga.reset().  It is called between runs of the saga, not during one.
SagaReset(s) ==
    /\ \A r \in RunIds : runs[r].saga = s => ~InFlight(runs[r])
    /\ steps' = [steps EXCEPT ![s] = [i \in 1..Len(@) |-> StepReset(@[i])]]
    /\ UNCHANGED <<subject, serviceCalls, caller, services, sagas, registrations, executionHistory,
                   maxHistorySize, runs, calls, settled, recorded>>

----------------------------------------------------------------------------
\* SagaStep.execute and SagaStep.compensate after their await

\* The forward action of the step returned, having stored its value in the
\* Context it was given: SagaStep.execute stores the result, sets executed
\* and appends to the log of the Context.
ActionReturns(r) ==
    LET run == runs[r]
        s == run.saga
        i == run.idx
        name == steps[s][i].name
    IN  /\ run.pc = "action"
        /\ steps' = [steps EXCEPT ![s][i].result = ResultOf(name),
                                  ![s][i].executed = TRUE]
        /\ runs' = [runs EXCEPT ![r] =
                [run EXCEPT !.context = <<markStepExecuted(
                                set(@[1], name, ValueOf(name, run.call)),
                                name, ResultOf(name))>>,
                            !.succeeded = Append(@, i),
                            !.pc = "stepDone"]]
        /\ UNCHANGED <<subject, serviceCalls, caller, services, sagas, registrations, executionHistory,
                       maxHistorySize, calls, settled, recorded>>

\* The forward action of the step threw: SagaStep.execute stores the error,
\* logs its message and throws it again.
ActionThrows(r, throwable) ==
    LET run == runs[r]
        s == run.saga
        i == run.idx
        error == ThrownBy(throwable, ActionError(steps[s][i].name))
    IN  /\ run.pc = "action"
        /\ steps' = [steps EXCEPT ![s][i].error = error]
        /\ runs' = [runs EXCEPT ![r] =
                [run EXCEPT !.thrown = AfterLogging(error),
                            !.raised = Append(@, error),
                            !.pc = "stepFailed"]]
        /\ UNCHANGED <<subject, serviceCalls, caller, services, sagas, registrations, executionHistory,
                       maxHistorySize, calls, settled, recorded>>

\* The compensation of the step returned: SagaStep.compensate sets compensated.
CompensationReturns(r) ==
    LET run == runs[r]
        s == run.saga
        i == run.executedSteps[run.ci]
    IN  /\ run.pc = "compensation"
        /\ steps' = [steps EXCEPT ![s][i].compensated = TRUE]
        /\ runs' = [runs EXCEPT ![r] =
                [run EXCEPT !.compensations = Append(@, i), !.pc = "compDone"]]
        /\ UNCHANGED <<subject, serviceCalls, caller, services, sagas, registrations, executionHistory,
                       maxHistorySize, calls, settled, recorded>>

\* The compensation of the step threw: SagaStep.compensate logs the message
\* of the error and throws it again.
CompensationThrows(r, throwable) ==
    LET run == runs[r]
        s == run.saga
        i == run.executedSteps[run.ci]
        error == ThrownBy(throwable, CompensationError(steps[s][i].name))
    IN  /\ run.pc = "compensation"
        /\ runs' = [runs EXCEPT ![r] =
                [run EXCEPT !.thrown = AfterLogging(error),
                            !.compensationFailures = Append(@, i),
                            !.pc = "compFailed"]]
        /\ UNCHANGED <<subject, serviceCalls, caller, services, steps, sagas, registrations, executionHistory,
                       maxHistorySize, calls, settled, recorded>>

\* The forward action of a step of PaymentProcessingSaga returned:
\* SagaStep.execute stores the result, sets executed and appends to the log
\* of the Context.
PaymentActionReturns(r) ==
    LET run == runs[r]
        s == run.saga
        i == run.idx
        name == steps[s][i].name
        outcome == PaymentAction(name, services, run.context[1])
    IN  /\ run.pc = "action"
        /\ outcome.error = Null
        /\ services' = outcome.services
        /\ steps' = [steps EXCEPT ![s][i].result = outcome.value,
                                  ![s][i].executed = TRUE]
        /\ runs' = [runs EXCEPT ![r] =
                [run EXCEPT !.context = <<markStepExecuted(outcome.context, name,
                                                           outcome.value)>>,
                            !.succeeded = Append(@, i),
                            !.pc = "stepDone"]]
        /\ UNCHANGED <<subject, serviceCalls, caller, sagas, registrations, executionHistory,
                       maxHistorySize, calls, settled, recorded>>

\* The forward action of a step of PaymentProcessingSaga threw:
\* SagaStep.execute stores the error, logs its message and throws it again.
PaymentActionThrows(r) ==
    LET run == runs[r]
        s == run.saga
        i == run.idx
        outcome == PaymentAction(steps[s][i].name, services, run.context[1])
    IN  /\ run.pc = "action"
        /\ outcome.error # Null
        /\ services' = outcome.services
        /\ steps' = [steps EXCEPT ![s][i].error = outcome.error]
        /\ runs' = [runs EXCEPT ![r] =
                [run EXCEPT !.thrown = AfterLogging(outcome.error),
                            !.raised = Append(@, outcome.error),
                            !.pc = "stepFailed"]]
        /\ UNCHANGED <<subject, serviceCalls, caller, sagas, registrations, executionHistory,
                       maxHistorySize, calls, settled, recorded>>

\* The compensation of a step of PaymentProcessingSaga settled:
\* SagaStep.compensate sets compensated when it returned, and logs the
\* message of the error and throws it again when it threw.
PaymentCompensationSettles(r) ==
    LET run == runs[r]
        s == run.saga
        i == run.executedSteps[run.ci]
        outcome == PaymentCompensation(steps[s][i].name, services, run.context[1])
    IN  /\ run.pc = "compensation"
        /\ services' = outcome.services
        /\ IF outcome.error = Null
           THEN /\ steps' = [steps EXCEPT ![s][i].compensated = TRUE]
                /\ runs' = [runs EXCEPT ![r] =
                        [run EXCEPT !.compensations = Append(@, i),
                                    !.pc = "compDone"]]
           ELSE /\ steps' = steps
                /\ runs' = [runs EXCEPT ![r] =
                        [run EXCEPT !.thrown = AfterLogging(outcome.error),
                                    !.compensationFailures = Append(@, i),
                                    !.pc = "compFailed"]]
        /\ UNCHANGED <<subject, serviceCalls, caller, sagas, registrations, executionHistory,
                       maxHistorySize, calls, settled, recorded>>

\* getServices().paymentService.setFailureRate(rate)
SetFailureRate(rate) ==
    /\ services' = setFailureRate(services, rate)
    /\ UNCHANGED <<subject, serviceCalls, caller, steps, sagas, registrations, executionHistory,
                   maxHistorySize, runs, calls, settled, recorded>>

----------------------------------------------------------------------------
\* Saga.execute and Saga.compensate after their awaits

\* await step.execute(context) returned: the for loop goes on.
SagaExecuteNext(r) ==
    LET run == runs[r] IN
    /\ run.pc = "stepDone"
    /\ runs' = [runs EXCEPT ![r] =
            SagaExecuteLoop(run, Len(steps[run.saga]), run.idx + 1)]
    /\ UNCHANGED <<subject, serviceCalls, caller, services, steps, sagas, registrations, executionHistory,
                   maxHistorySize, calls, settled, recorded>>

\* await step.execute(context) threw: the catch of Saga.execute.
SagaExecuteCatch(r) ==
    LET run == runs[r] IN
    /\ run.pc = "stepFailed"
    /\ runs' = [runs EXCEPT ![r] =
            SagaCompensate([run EXCEPT !.context = <<markFailed(@[1], run.thrown)>>,
                                       !.thrown = Null],
                           steps[run.saga])]
    /\ UNCHANGED <<subject, serviceCalls, caller, services, steps, sagas, registrations, executionHistory,
                   maxHistorySize, calls, settled, recorded>>

\* A faulty for loop of Saga.compensate: after a step whose compensation was
\* skipped it awaits a promise that nothing settles.
SagaCompensateNext_WaitsAfterSkip(r) ==
    LET run == runs[r]
        step == steps[run.saga][run.executedSteps[run.ci]]
    IN  /\ run.pc = "compDone"
        /\ runs' = IF step.hasCompensation
                   THEN [runs EXCEPT ![r] =
                            SagaCompensateLoop(run, steps[run.saga], run.ci - 1)]
                   ELSE runs
        /\ UNCHANGED <<subject, serviceCalls, caller, services, steps, sagas, registrations, executionHistory, maxHistorySize,
                       calls, settled, recorded>>

\* await step.compensate(context) returned: the for loop goes on.
SagaCompensateNext(r) ==
    LET run == runs[r] IN
    /\ run.pc = "compDone"
    /\ runs' = [runs EXCEPT ![r] =
            SagaCompensateLoop(run, steps[run.saga], run.ci - 1)]
    /\ UNCHANGED <<subject, serviceCalls, caller, services, steps, sagas, registrations, executionHistory,
                   maxHistorySize, calls, settled, recorded>>

\* A faulty catch of Saga.compensate: it leaves the for loop, so the steps
\* still to compensate are not visited.
SagaCompensateCatch_Stops(r) ==
    LET run == runs[r] IN
    /\ run.pc = "compFailed"
    /\ runs' = [runs EXCEPT ![r] =
            SagaCompensateLoop([run EXCEPT !.thrown = Null], steps[run.saga], 0)]
    /\ UNCHANGED <<subject, serviceCalls, caller, services, steps, sagas, registrations, executionHistory,
                   maxHistorySize, calls, settled, recorded>>

\* Saga.compensate without its try/catch: the error leaves Saga.compensate
\* and Saga.execute, and the catch of executeSaga throws it to the caller.
SagaCompensateCatch_Rethrows(r) ==
    LET run == runs[r] IN
    /\ run.pc = "compFailed"
    /\ settled' = [run EXCEPT !.outcome = "thrown", !.rejection = run.thrown]
    /\ runs' = [runs EXCEPT ![r] = IdleRun]
    /\ UNCHANGED <<subject, serviceCalls, caller, services, steps, sagas, registrations, executionHistory,
                   maxHistorySize, calls, recorded>>

\* A faulty catch of Saga.compensate: it tries the compensation that threw
\* once more.
SagaCompensateCatch_Retries(r) ==
    LET run == runs[r] IN
    /\ run.pc = "compFailed"
    /\ runs' = [runs EXCEPT ![r] =
            SagaCompensateLoop([run EXCEPT !.thrown = Null], steps[run.saga],
                IF Len(run.compensationFailures) = 1 THEN run.ci ELSE run.ci - 1)]
    /\ UNCHANGED <<subject, serviceCalls, caller, services, steps, sagas, registrations, executionHistory, maxHistorySize,
                   calls, settled, recorded>>

\* await step.compensate(context) threw: the catch of Saga.compensate logs
\* the error and the for loop goes on.
SagaCompensateCatch(r) ==
    LET run == runs[r] IN
    /\ run.pc = "compFailed"
    /\ runs' = [runs EXCEPT ![r] =
            SagaCompensateLoop([run EXCEPT !.thrown = Null],
                               steps[run.saga], run.ci - 1)]
    /\ UNCHANGED <<subject, serviceCalls, caller, services, steps, sagas, registrations, executionHistory,
                   maxHistorySize, calls, settled, recorded>>

----------------------------------------------------------------------------
\* SagaOrchestrator

\* A faulty registerSaga: it keeps the saga a name already has.
RegisterSaga_KeepsFirst(name, s) ==
    /\ sagas' = [sagas EXCEPT ![name] = IF @ = NoSaga THEN s ELSE @]
    /\ registrations' = [registrations EXCEPT ![name] = Append(@, s)]
    /\ UNCHANGED <<subject, serviceCalls, caller, services, steps, executionHistory, maxHistorySize, runs, calls, settled, recorded>>

\* registerSaga(name, saga)
RegisterSaga(name, s) ==
    /\ sagas' = [sagas EXCEPT ![name] = s]
    /\ registrations' = [registrations EXCEPT ![name] = Append(@, s)]
    /\ UNCHANGED <<subject, serviceCalls, caller, services, steps, executionHistory, maxHistorySize, runs, calls, settled, recorded>>

\* A faulty record: it takes the error for its message.
ExecutionRecord_ErrorForMessage(sagaName, context, duration, seq) ==
    [seq |-> seq,
     sagaName |-> sagaName,
     sagaId |-> context.sagaId,
     status |-> context.status,
     duration |-> duration,
     executedSteps |-> Len(context.executedSteps),
     error |-> context.error]

\* The record recordExecution builds.  seq is not a field of the code's record:
\* it numbers the records in the order they are pushed.
ExecutionRecord(sagaName, context, duration, seq) ==
    [seq |-> seq,
     sagaName |-> sagaName,
     sagaId |-> context.sagaId,
     status |-> context.status,
     duration |-> duration,
     executedSteps |-> Len(context.executedSteps),
     error |-> IF context.error # Null THEN MessageOf(context.error) ELSE Null]

\* A faulty recordExecution: unshift() for push() and pop() for shift(), which
\* keeps the newest record first.
PushRecord_NewestFirst(history, record, capacity) ==
    LET pushed == <<record>> \o history IN
    IF Len(pushed) > capacity THEN SubSeq(pushed, 1, Len(pushed) - 1) ELSE pushed

\* A faulty recordExecution: pop() for shift(), which drops the new record.
PushRecord_DropsNewest(history, record, capacity) ==
    LET pushed == Append(history, record) IN
    IF Len(pushed) > capacity THEN SubSeq(pushed, 1, Len(pushed) - 1) ELSE pushed

\* executionHistory.push(record), then shift() when over maxHistorySize
PushRecord(history, record, capacity) ==
    LET pushed == Append(history, record) IN
    IF Len(pushed) > capacity THEN Tail(pushed) ELSE pushed

\* A faulty executeSaga: it records the call before it looks the name up.
ExecuteSaga_RecordsBeforeLookup(r, sagaName, initialData) ==
    LET saga == sagas[sagaName]
        call == [IdleRun EXCEPT !.call = calls + 1, !.sagaName = sagaName,
                                !.initialData = initialData, !.before = services]
    IN  /\ runs[r].pc = "idle"
        /\ \A q \in RunIds : q < r => runs[q].pc # "idle"
        /\ calls' = calls + 1
        /\ IF saga = NoSaga
           THEN /\ settled' = [call EXCEPT !.outcome = "thrown",
                                           !.rejection = NotFoundError(sagaName)]
                /\ runs' = runs
                /\ executionHistory' = PushRecord(executionHistory,
                        ExecutionRecord(sagaName, NewSagaContext(calls', initialData),
                                        0, recorded + 1),
                        maxHistorySize)
                /\ recorded' = recorded + 1
           ELSE /\ runs' = [runs EXCEPT ![r] =
                        SagaExecute([call EXCEPT !.saga = saga, !.fresh = AllFresh(steps[saga])],
                                    steps[saga],
                                    calls', initialData)]
                /\ settled' = IdleRun
                /\ UNCHANGED <<subject, serviceCalls, caller, services, executionHistory, recorded>>
        /\ UNCHANGED <<subject, serviceCalls, caller, services, steps, sagas, registrations, maxHistorySize>>

\* executeSaga(sagaName, initialData) up to its await, as run r: it throws
\* when the name is not registered, and calls saga.execute otherwise.
ExecuteSaga(r, sagaName, initialData) ==
    LET saga == sagas[sagaName]
        call == [IdleRun EXCEPT !.call = calls + 1, !.sagaName = sagaName,
                                !.initialData = initialData, !.before = services]
    IN  /\ runs[r].pc = "idle"
        /\ \A q \in RunIds : q < r => runs[q].pc # "idle"
        /\ calls' = calls + 1
        /\ IF saga = NoSaga
           THEN /\ settled' = [call EXCEPT !.outcome = "thrown",
                                           !.rejection = NotFoundError(sagaName)]
                /\ runs' = runs
           ELSE /\ runs' = [runs EXCEPT ![r] =
                        SagaExecute([call EXCEPT !.saga = saga, !.fresh = AllFresh(steps[saga])],
                                    steps[saga],
                                    calls', initialData)]
                /\ settled' = IdleRun
        /\ UNCHANGED <<subject, serviceCalls, caller, services, steps, sagas, registrations, executionHistory, maxHistorySize, recorded>>

\* await saga.execute(initialData) returned: recordExecution, return context.
\* duration is Date.now() - startTime.
ExecuteSagaReturns(r, duration) ==
    LET run == runs[r] IN
    /\ run.pc = "returned"
    /\ executionHistory' = PushRecord(executionHistory,
            ExecutionRecord(run.sagaName, run.context[1], duration, recorded + 1),
            maxHistorySize)
    /\ recorded' = recorded + 1
    /\ settled' = [run EXCEPT !.outcome = "context"]
    /\ runs' = [runs EXCEPT ![r] = IdleRun]
    /\ UNCHANGED <<subject, serviceCalls, caller, services, steps, sagas, registrations, maxHistorySize, calls>>

\* Array.prototype.slice(start) with one argument: a negative start counts
\* from the end, and the result runs from there to the end of the array.
Slice(array, start) ==
    LET len == Len(array)
        from == IF start < 0
                THEN (IF len + start > 0 THEN len + start ELSE 0)
                ELSE (IF start < len THEN start ELSE len)
    IN  SubSeq(array, from + 1, len)

\* getExecutionHistory(limit)
getExecutionHistory(limit) == Slice(executionHistory, 0 - limit)

\* A faulty count: counts[key] = 1
Increment_Overwrites(counts, key) ==
    [k \in DOMAIN counts \cup {key} |-> IF k = key THEN 1 ELSE counts[k]]

\* counts[key] = (counts[key] || 0) + 1
Increment(counts, key) ==
    [k \in DOMAIN counts \cup {key} |->
        IF k = key
        THEN (IF key \in DOMAIN counts THEN counts[key] ELSE 0) + 1
        ELSE counts[k]]

\* The forEach of getStatistics over the first n records.
RECURSIVE StatisticsOver(_, _)
StatisticsOver(history, n) ==
    IF n = 0
    THEN [byStatus |-> <<>>, bySaga |-> <<>>, totalDuration |-> 0]
    ELSE LET stats == StatisticsOver(history, n - 1)
             record == history[n]
         IN  [byStatus |-> Increment(stats.byStatus, record.status),
              bySaga |-> Increment(stats.bySaga, record.sagaName),
              totalDuration |-> stats.totalDuration + record.duration]

\* A faulty average: Math.floor(a / b)
RoundedQuotient_Floors(a, b) == a \div b

\* Math.round(a / b) for a >= 0, b > 0: the nearest integer, halves go up.
RoundedQuotient(a, b) == (2 * a + b) \div (2 * b)

\* getStatistics()
getStatistics ==
    LET stats == StatisticsOver(executionHistory, Len(executionHistory)) IN
    [totalExecutions |-> Len(executionHistory),
     registeredSagas |-> Cardinality({n \in SagaNames : sagas[n] # NoSaga}),
     byStatus |-> stats.byStatus,
     bySaga |-> stats.bySaga,
     averageDuration |->
        IF Len(executionHistory) > 0
        THEN RoundedQuotient(stats.totalDuration, Len(executionHistory))
        ELSE 0]

\* clearHistory()
ClearHistory ==
    /\ executionHistory' = <<>>
    /\ recorded' = 0
    /\ UNCHANGED <<subject, serviceCalls, caller, services, steps, sagas, registrations, maxHistorySize, runs, calls, settled>>

----------------------------------------------------------------------------
\* saga/index.js builds one saga and registers it once, under one name; a
\* call with the other name finds no saga.
Build(maxSteps) ==
    \/ \E hasCompensation \in BOOLEAN :
            /\ Len(steps["s1"]) < maxSteps
            /\ AddStep("s1", StepNames[Len(steps["s1"]) + 1], hasCompensation)
    \/ /\ sagas["PaymentProcessing"] = NoSaga
       /\ RegisterSaga("PaymentProcessing", "s1")

Run(durations, throwables) ==
    \/ \E r \in RunIds : ActionReturns(r)
    \/ \E r \in RunIds, throwable \in throwables : ActionThrows(r, throwable)
    \/ \E r \in RunIds : SagaExecuteNext(r)
    \/ \E r \in RunIds : SagaExecuteCatch(r)
    \/ \E r \in RunIds : CompensationReturns(r)
    \/ \E r \in RunIds, throwable \in throwables : CompensationThrows(r, throwable)
    \/ \E r \in RunIds : SagaCompensateNext(r)
    \/ \E r \in RunIds : SagaCompensateCatch(r)
    \/ \E r \in RunIds, duration \in durations : ExecuteSagaReturns(r, duration)

NoRunInFlight == \A r \in RunIds : ~InFlight(runs[r])

\* The caller awaits every executeSaga call before it makes the next one, as
\* runAllExamples of saga/index.js does.
Next ==
    \/ Build(MaxSteps)
    \/ Run({0}, Throwables)
    \/ \E name \in SagaNames :
            /\ calls < MaxCalls
            /\ NoRunInFlight
            /\ ExecuteSaga(1, name, EmptyObject)
    \/ \E s \in SagaIds : SagaReset(s)
    \/ ClearHistory

Spec == Init /\ [][Next]_vars

\* The caller makes executeSaga calls while earlier ones are in flight.
Concurrent(initialDatas) ==
    \/ Build(MaxConcurrentSteps)
    \/ Run({0}, {"Error"})
    \/ \E r \in RunIds, name \in SagaNames, initialData \in initialDatas :
            /\ calls < MaxConcurrentCalls
            /\ ExecuteSaga(r, name, initialData)

NextConcurrent == Concurrent({EmptyObject})

SpecConcurrent == InitSmallHistory /\ [][NextConcurrent]_vars

\* The overlapping calls are given initial data.
NextContexts == Concurrent(InitialDatas)

SpecContexts == Init /\ [][NextContexts]_vars

\* The caller awaits its calls and makes more of them than the history
\* holds; the calls take different times.
NextHistory ==
    \/ Build(MaxHistorySteps)
    \/ Run(Durations, {"Error"})
    \/ \E name \in SagaNames :
            /\ calls < MaxHistoryCalls
            /\ NoRunInFlight
            /\ ExecuteSaga(1, name, EmptyObject)
    \/ ClearHistory

SpecHistory == InitSmallHistory /\ [][NextHistory]_vars

\* The caller builds sagas with addStep, giving each step the name it likes.
GivenNames == {"A", "B"}

NextBuild ==
    \E s \in SagaIds, name \in GivenNames, hasCompensation \in BOOLEAN :
        /\ Len(steps[s]) < MaxBuildSteps
        /\ AddStep(s, name, hasCompensation)

SpecBuild == Init /\ [][NextBuild]_vars

\* Two sagas are built, their steps with a compensation, and are registered
\* under the one name, in any order and more than once; the caller awaits
\* its calls.
NextRegistry ==
    \/ \E s \in SagaIds :
            /\ Len(steps[s]) < MaxRegistrySteps
            /\ AddStep(s, StepNames[Len(steps[s]) + 1], TRUE)
    \/ \E s \in SagaIds :
            /\ Len(registrations["PaymentProcessing"]) < MaxRegistrations
            /\ RegisterSaga("PaymentProcessing", s)
    \/ Run({0}, {"Error"})
    \/ \E name \in SagaNames :
            /\ calls < MaxRegistryCalls
            /\ NoRunInFlight
            /\ ExecuteSaga(1, name, EmptyObject)

SpecRegistry == Init /\ [][NextRegistry]_vars

\* A forward action or a compensation that run r invoked returns or throws.
Settles(r) ==
    \/ ActionReturns(r)
    \/ ActionThrows(r, "Error")
    \/ CompensationReturns(r)
    \/ CompensationThrows(r, "Error")

\* The continuation of an await of run r whose promise has settled.
Continues(r) ==
    \/ SagaExecuteNext(r)
    \/ SagaExecuteCatch(r)
    \/ SagaCompensateNext(r)
    \/ SagaCompensateCatch(r)
    \/ \E duration \in {0} : ExecuteSagaReturns(r, duration)

\* What a call in flight is owed.  The event loop runs a job that is ready,
\* and the continuation of a settled await is one.  That the caller's
\* functions settle is theirs to keep.
Scheduling(r) == WF_vars(Continues(r)) /\ WF_vars(Settles(r))

\* Overlapping calls whose actions and compensations all settle.
SpecSettling ==
    Init /\ [][NextConcurrent]_vars /\ \A r \in RunIds : Scheduling(r)

----------------------------------------------------------------------------
\* The steps of a saga, called by a caller of its own

\* A call of a method of step i of saga s, as the caller makes it: with a
\* Context the caller made for it.
StepCall(s) ==
    [IdleRun EXCEPT !.call = calls + 1, !.saga = s, !.before = services,
                    !.context = <<NewSagaContext(calls + 1, EmptyObject)>>]

\* step.execute(context) up to its await, as run r
StepExecute(r, s, i) ==
    /\ runs[r].pc = "idle"
    /\ runs' = [runs EXCEPT ![r] = CallStepExecute(StepCall(s), i)]
    /\ calls' = calls + 1
    /\ settled' = IdleRun
    /\ UNCHANGED <<subject, serviceCalls, caller, services, steps, sagas, registrations, executionHistory,
                   maxHistorySize, recorded>>

\* step.compensate(context) up to its await, or to its return when it skips
\* the step, as run r
StepCompensate(r, s, i) ==
    /\ runs[r].pc = "idle"
    /\ runs' = [runs EXCEPT ![r] =
            CallStepCompensate([StepCall(s) EXCEPT !.executedSteps = <<i>>],
                               steps[s], 1)]
    /\ calls' = calls + 1
    /\ settled' = IdleRun
    /\ UNCHANGED <<subject, serviceCalls, caller, services, steps, sagas, registrations, executionHistory,
                   maxHistorySize, recorded>>

\* step.reset()
ResetStep(s, i) ==
    /\ steps' = [steps EXCEPT ![s][i] = StepReset(@)]
    /\ UNCHANGED <<subject, serviceCalls, caller, services, sagas, registrations, executionHistory,
                   maxHistorySize, runs, calls, settled, recorded>>

\* await step.execute(context) or await step.compensate(context) settles for
\* the caller: with what the method returned, or with what it threw.
StepCallSettles(r) ==
    LET run == runs[r] IN
    /\ run.pc \in {"stepDone", "stepFailed", "compDone", "compFailed"}
    /\ settled' = IF run.pc \in {"stepFailed", "compFailed"}
                  THEN [run EXCEPT !.outcome = "thrown", !.rejection = run.thrown]
                  ELSE [run EXCEPT !.outcome = "returned"]
    /\ runs' = [runs EXCEPT ![r] = IdleRun]
    /\ UNCHANGED <<subject, serviceCalls, caller, services, steps, sagas, registrations, executionHistory,
                   maxHistorySize, calls, recorded>>

\* The callers of the methods of the steps: two, whose calls overlap.
Callers == {1, 2}

\* The caller constructs the steps, then calls execute, compensate and reset
\* of any of them in any order, also while earlier calls are in flight;
\* reset is for the time between uses of a step and is called when no call
\* is in flight.
NextStep ==
    \/ \E hasCompensation \in BOOLEAN :
            /\ Len(steps["s1"]) < MaxStepSteps
            /\ AddStep("s1", StepNames[Len(steps["s1"]) + 1], hasCompensation)
    \/ \E r \in Callers, i \in DOMAIN steps["s1"] :
            /\ calls < MaxStepCalls
            /\ \A q \in Callers : q < r => runs[q].pc # "idle"
            /\ StepExecute(r, "s1", i)
    \/ \E r \in Callers, i \in DOMAIN steps["s1"] :
            /\ calls < MaxStepCalls
            /\ \A q \in Callers : q < r => runs[q].pc # "idle"
            /\ StepCompensate(r, "s1", i)
    \/ \E i \in DOMAIN steps["s1"] :
            /\ NoRunInFlight
            /\ calls > 0
            /\ ResetStep("s1", i)
    \/ \E r \in RunIds : ActionReturns(r)
    \/ \E r \in RunIds, throwable \in Throwables : ActionThrows(r, throwable)
    \/ \E r \in RunIds : CompensationReturns(r)
    \/ \E r \in RunIds, throwable \in Throwables : CompensationThrows(r, throwable)
    \/ \E r \in RunIds : StepCallSettles(r)

SpecStep == Init /\ [][NextStep]_vars

----------------------------------------------------------------------------
\* A Context in the hands of a caller

\* The values of the status field that the code knows.
Statuses ==
    {"PENDING", "IN_PROGRESS", "COMPLETED", "FAILED", "COMPENSATING", "COMPENSATED"}

\* new SagaContext(): settled holds the Context the caller has.
InitContext ==
    /\ steps = [s \in SagaIds |-> <<>>]
    /\ sagas = [n \in SagaNames |-> NoSaga]
    /\ executionHistory = <<>>
    /\ maxHistorySize = DefaultMaxHistorySize
    /\ runs = [r \in RunIds |-> IdleRun]
    /\ calls = 0
    /\ settled = [IdleRun EXCEPT !.context = <<NewSagaContext(0, EmptyObject)>>]
    /\ recorded = 0
    /\ registrations = [n \in SagaNames |-> <<>>]
    /\ services = NewServices
    /\ caller = NoObjects
    /\ serviceCalls = <<>>
    /\ subject = NewSubject

\* The caller calls a method of the Context that leaves it as changed is.
ContextOperation(changed) ==
    /\ Len(settled.context[1].statuses) <= MaxOperations
    /\ settled' = [settled EXCEPT !.context = <<changed>>]
    /\ UNCHANGED <<subject, serviceCalls, caller, services, steps, sagas, registrations, executionHistory,
                   maxHistorySize, runs, calls, recorded>>

\* The caller calls the methods of the Context that set its status, in any
\* order.
NextContext ==
    \/ \E status \in Statuses :
            ContextOperation(setStatus(settled.context[1], status))
    \/ ContextOperation(markStarted(settled.context[1]))
    \/ ContextOperation(markCompleted(settled.context[1]))
    \/ ContextOperation(markFailed(settled.context[1], Error(<<"failed">>)))
    \/ ContextOperation(markCompensating(settled.context[1]))
    \/ ContextOperation(markCompensated(settled.context[1]))

SpecContext == InitContext /\ [][NextContext]_vars

----------------------------------------------------------------------------
\* A Context and the objects it takes from and hands to its caller

\* The Context the caller has, once it has constructed one.
TheContext == settled.context[1]
HasContext == settled.context # <<>>
\* The keys and values the caller sets.
Keys == {"A", "B"}
Values == {<<"initial">>, <<"changed">>}

\* One call of the caller; what it does to the Context and to the objects
\* of the caller is given.
CallerDoes(context, objects) ==
    /\ calls < MaxCallerOperations
    /\ calls' = calls + 1
    /\ settled' = [settled EXCEPT !.context = <<context>>]
    /\ caller' = objects
    /\ UNCHANGED <<subject, serviceCalls, services, steps, sagas, registrations, executionHistory,
                   maxHistorySize, runs, recorded>>

\* new SagaContext(initialData)
Construct(initialData) ==
    /\ ~HasContext
    /\ LET data == DataOf(initialData) IN
       CallerDoes(NewSagaContext(0, data.value),
                  [caller EXCEPT !.initialData = <<initialData>>,
                                 !.dataShared = data.shared])

\* The objects of the caller after this.data[key] = value: those that are the
\* data object of the Context have changed with it.
AfterDataChange(objects, key, value) ==
    [objects EXCEPT
        !.initialData = IF objects.dataShared
                        THEN <<Assign(@[1], key, value)>> ELSE @,
        !.snapshot = IF objects.snapshotShared
                     THEN <<Assign(@[1], key, value)>> ELSE @]

\* context.set(key, value)
Set(key, value) ==
    /\ HasContext
    /\ CallerDoes(set(TheContext, key, value), AfterDataChange(caller, key, value))

\* context.markStepExecuted(stepName, result), as SagaStep.execute calls it
MarkStepExecuted(stepName) ==
    /\ HasContext
    /\ LET marked == markStepExecuted(TheContext, stepName, ResultOf(stepName)) IN
       CallerDoes(marked,
                  [caller EXCEPT !.list = IF caller.listShared
                                          THEN <<marked.executedSteps>> ELSE @])

\* context.getAll(): the caller keeps what it returns
GetAll ==
    /\ HasContext
    /\ LET all == getAll(TheContext) IN
       CallerDoes(TheContext, [caller EXCEPT !.snapshot = <<all.value>>,
                                             !.snapshotShared = all.shared])

\* context.getExecutedSteps(): the caller keeps what it returns
GetExecutedSteps ==
    /\ HasContext
    /\ LET list == getExecutedSteps(TheContext) IN
       CallerDoes(TheContext, [caller EXCEPT !.list = <<list.value>>,
                                             !.listShared = list.shared])

\* The caller assigns to a property of the object getAll gave it.
ChangeSnapshot(key, value) ==
    /\ HasContext /\ caller.snapshot # <<>>
    /\ IF caller.snapshotShared
       THEN CallerDoes(set(TheContext, key, value),
                       AfterDataChange(caller, key, value))
       ELSE CallerDoes(TheContext,
                       [caller EXCEPT !.snapshot = <<Assign(@[1], key, value)>>])

\* The caller changes the list getExecutedSteps gave it: push(entry), or
\* pop(), which takes the last element off when there is one.
ChangeList(method) ==
    /\ HasContext /\ caller.list # <<>>
    /\ LET list == caller.list[1]
           changed == IF method = "push"
                      THEN Append(list, [stepName |-> "Z", result |-> Null])
                      ELSE SubSeq(list, 1, Len(list) - 1)
       IN  CallerDoes(IF caller.listShared
                      THEN [TheContext EXCEPT !.executedSteps = changed]
                      ELSE TheContext,
                      [caller EXCEPT !.list = <<changed>>])

\* The caller assigns to a property of the initialData it passed.
ChangeInitialData(key, value) ==
    /\ HasContext
    /\ IF caller.dataShared
       THEN CallerDoes(set(TheContext, key, value),
                       AfterDataChange(caller, key, value))
       ELSE CallerDoes(TheContext,
                       [caller EXCEPT !.initialData = <<Assign(@[1], key, value)>>])

\* The caller sets the status, the error and the times of the Context.
OtherOperation(method) ==
    /\ HasContext
    /\ CallerDoes(CASE method = "markStarted" -> markStarted(TheContext)
                    [] method = "markCompleted" -> markCompleted(TheContext)
                    [] method = "markFailed" ->
                            markFailed(TheContext, Error(<<"failed">>))
                    [] method = "markCompensating" -> markCompensating(TheContext)
                    [] method = "markCompensated" -> markCompensated(TheContext)
                    [] method = "setStatus" -> setStatus(TheContext, "PENDING"),
                  caller)

NextCaller ==
    \/ \E initialData \in InitialDatas : Construct(initialData)
    \/ \E key \in Keys, value \in Values : Set(key, value)
    \/ \E stepName \in {"A", "B"} : MarkStepExecuted(stepName)
    \/ GetAll
    \/ GetExecutedSteps
    \/ \E key \in Keys, value \in Values : ChangeSnapshot(key, value)
    \/ \E method \in {"push", "pop"} : ChangeList(method)
    \/ \E key \in Keys, value \in Values : ChangeInitialData(key, value)
    \/ \E method \in {"markStarted", "markCompleted", "markFailed",
                        "markCompensating", "markCompensated", "setStatus"} :
            OtherOperation(method)

SpecCaller == Init /\ [][NextCaller]_vars

----------------------------------------------------------------------------
\* PaymentProcessingSaga, registered and run as saga/index.js does

\* The orders the caller passes: the three of saga/index.js (one that the
\* services accept, one for more monitors than are in stock, one that is
\* paid while the failure rate is 1), one whose payment method has no card
\* number, one whose shipping address has no street, and one that names the
\* payment of an earlier attempt.
Card == Object([type |-> "credit_card", cardNumber |-> "4111111111111111"])
Address == Object([street |-> "123 Main St", city |-> "New York"])
Order(items, paymentMethod, shippingAddress) ==
    [customerId |-> <<"CUST_001">>, items |-> Array(items), totalAmount |-> Number(1299),
     paymentMethod |-> paymentMethod, shippingAddress |-> shippingAddress]
Item(productId, quantity) == [productId |-> productId, quantity |-> quantity]
successfulOrder == Order(<<Item("PROD_001", 1), Item("PROD_002", 2)>>, Card, Address)
failedOrderInventory == Order(<<Item("PROD_004", 10)>>, Card, Address)
failedOrderPayment == Order(<<Item("PROD_003", 1)>>, Card, Address)
Orders ==
    {successfulOrder, failedOrderInventory, failedOrderPayment,
     Order(<<Item("PROD_004", 3), Item("PROD_004", 2)>>,
           Object([type |-> "credit_card"]), Address),
     Order(<<Item("PROD_001", 1)>>, Card, Object([city |-> "New York"])),
     [k \in DOMAIN failedOrderPayment \cup {"paymentId"} |->
        IF k = "paymentId" THEN Id("PAY", 0) ELSE failedOrderPayment[k]]}

\* The state after new PaymentProcessingSaga() and new SagaOrchestrator().
InitPayment ==
    /\ steps = [s \in SagaIds |-> IF s = "s1" THEN PaymentSteps ELSE <<>>]
    /\ sagas = [n \in SagaNames |-> NoSaga]
    /\ executionHistory = <<>>
    /\ maxHistorySize = DefaultMaxHistorySize
    /\ runs = [r \in RunIds |-> IdleRun]
    /\ calls = 0
    /\ settled = IdleRun
    /\ recorded = 0
    /\ registrations = [n \in SagaNames |-> <<>>]
    /\ services = NewServices
    /\ caller = NoObjects
    /\ serviceCalls = <<>>
    /\ subject = NewSubject

\* The caller awaits every executeSaga call before it makes the next one and
\* sets the failure rate between calls, as runAllExamples does.
NextPayment ==
    \/ /\ sagas["PaymentProcessing"] = NoSaga
       /\ RegisterSaga("PaymentProcessing", "s1")
    \/ \E rate \in {0, 1} :
            /\ NoRunInFlight
            /\ services.failureRate # rate
            /\ SetFailureRate(rate)
    \/ \E order \in Orders :
            /\ calls < MaxPaymentCalls
            /\ NoRunInFlight
            /\ sagas["PaymentProcessing"] # NoSaga
            /\ ExecuteSaga(1, "PaymentProcessing", order)
    \/ \E r \in RunIds : PaymentActionReturns(r)
    \/ \E r \in RunIds : PaymentActionThrows(r)
    \/ \E r \in RunIds : SagaExecuteNext(r)
    \/ \E r \in RunIds : SagaExecuteCatch(r)
    \/ \E r \in RunIds : PaymentCompensationSettles(r)
    \/ \E r \in RunIds : SagaCompensateNext(r)
    \/ \E r \in RunIds : SagaCompensateCatch(r)
    \/ \E r \in RunIds : ExecuteSagaReturns(r, 0)

SpecPayment == InitPayment /\ [][NextPayment]_vars

----------------------------------------------------------------------------
\* InventoryService, called by a caller of its own

\* The item lists the caller reserves: one the stock covers, one that names a
\* product twice, one whose second item the stock does not cover and one
\* whose second item is no product.
ItemLists ==
    {<<Item("PROD_004", 3)>>,
     <<Item("PROD_004", 3), Item("PROD_004", 3)>>,
     <<Item("PROD_001", 1), Item("PROD_004", 6)>>,
     <<Item("PROD_001", 1), Item("PROD_999", 1)>>}

\* A call of an async function of the service, up to its await of delay():
\* nothing of the service is read or written before it.  during is the calls
\* that were in their delay when this one was made.
ServiceCall(method, items, reservationId) ==
    [method |-> method, orderId |-> Id("ORD", Len(serviceCalls) + 1),
     items |-> items, reservationId |-> reservationId,
     pc |-> "delay", error |-> Null, value |-> Undefined,
     during |-> {k \in DOMAIN serviceCalls : serviceCalls[k].pc = "delay"}]

InDelay(k) == serviceCalls[k].pc = "delay"
Settled(k) == serviceCalls[k].pc = "settled"

\* The reservation ids the caller has: those its reserveInventory calls have
\* returned, and one that no call returned.
KnownReservations ==
    {serviceCalls[k].value[2].reservationId :
        k \in {j \in DOMAIN serviceCalls :
                /\ Settled(j)
                /\ serviceCalls[j].method = "reserveInventory"
                /\ serviceCalls[j].error = Null}}
    \cup {Id("RES", 0)}

MakeServiceCall(call) ==
    /\ Len(serviceCalls) < MaxServiceCalls
    /\ serviceCalls' = Append(serviceCalls, call)
    /\ UNCHANGED <<subject, caller, services, steps, sagas, registrations,
                   executionHistory, maxHistorySize, runs, calls, settled,
                   recorded>>

\* inventoryService.reserveInventory(orderId, items) is called
CallReserveInventory(items) ==
    MakeServiceCall(ServiceCall("reserveInventory", items, Undefined))

\* inventoryService.releaseInventory(reservationId) is called
CallReleaseInventory(reservationId) ==
    MakeServiceCall(ServiceCall("releaseInventory", <<>>, reservationId))

\* The delay of call k is over: the rest of the function runs, and the
\* promise of the call is resolved or rejected.
AfterDelay(k) ==
    LET call == serviceCalls[k]
        outcome == IF call.method = "reserveInventory"
                   THEN reserveInventory(services, call.orderId, call.items)
                   ELSE releaseInventory(services, call.reservationId)
    IN  /\ InDelay(k)
        /\ services' = outcome.services
        /\ serviceCalls' = [serviceCalls EXCEPT ![k] =
                [call EXCEPT !.pc = "settled", !.error = outcome.error,
                             !.value = outcome.value]]
        /\ UNCHANGED <<subject, caller, steps, sagas, registrations, executionHistory,
                       maxHistorySize, runs, calls, settled, recorded>>

\* The caller makes its calls without awaiting those it has made; a timer
\* may fire before one that was set earlier, as the delays differ.
NextInventory ==
    \/ \E items \in ItemLists : CallReserveInventory(items)
    \/ \E reservationId \in KnownReservations : CallReleaseInventory(reservationId)
    \/ \E k \in DOMAIN serviceCalls : AfterDelay(k)

SpecInventory == Init /\ [][NextInventory]_vars

----------------------------------------------------------------------------
\* A Subject, its observers attached and detached, and notified

SubjectDoes(subj) ==
    /\ subject' = subj
    /\ UNCHANGED <<serviceCalls, caller, services, steps, sagas, registrations,
                   executionHistory, maxHistorySize, runs, calls, settled,
                   recorded>>

Attach(update) ==
    /\ subject.observerIdCounter < MaxAttached
    /\ SubjectDoes(attach(subject, update))

Detach(observerId) == SubjectDoes(detach(subject, observerId))

DetachAll == SubjectDoes(detachAll(subject))

Notify(eventType) == SubjectDoes(notify(subject, eventType))

NextSubject ==
    \/ \E update \in Updates : Attach(update)
    \/ \E observerId \in 1..subject.observerIdCounter : Detach(observerId)
    \/ DetachAll
    \/ \E eventType \in {"order.created"} : Notify(eventType)

SpecSubject == Init /\ [][NextSubject]_vars

----------------------------------------------------------------------------
\* Vocabulary of the properties

Reverse(seq) == [k \in 1..Len(seq) |-> seq[Len(seq) + 1 - k]]
Range(seq) == {seq[k] : k \in DOMAIN seq}
UpTo(n) == [i \in 1..n |-> i]
Min(a, b) == IF a < b THEN a ELSE b

\* The steps among seq that have a compensation, in the order of seq.
WithCompensation(s, seq) ==
    SelectSeq(seq, LAMBDA i : steps[s][i].hasCompensation)

\* Saga.execute of the call has returned its Context to executeSaga's caller.
Returned(run) == run.outcome = "context"
\* A forward action of the call threw.
ActionThrew(run) == run.pc # "action" /\ Len(run.actionCalls) > Len(run.succeeded)
\* x comes before y in seq.
Before(seq, x, y) ==
    \E p, q \in DOMAIN seq : p < q /\ seq[p] = x /\ seq[q] = y

RECURSIVE SumOfValues(_)
SumOfValues(counts) ==
    IF DOMAIN counts = {}
    THEN 0
    ELSE LET key == CHOOSE k \in DOMAIN counts : TRUE IN
         counts[key] + SumOfValues([k \in DOMAIN counts \ {key} |-> counts[k]])

----------------------------------------------------------------------------
\* C1: when step k is the first step whose forward action fails, the run has
\* invoked the forward actions of steps 1..k only, and the compensations of
\* exactly the steps k-1, k-2, ..., 1 that have one, in that order; the
\* compensation of step k is not invoked.
CX_C1_FirstFailureRollsBackInOrder ==
    LET k == Len(settled.succeeded) + 1 IN
    (Returned(settled) /\ ActionThrew(settled)) =>
        /\ settled.actionCalls = UpTo(k)
        /\ settled.compensationCalls =
                WithCompensation(settled.saga, Reverse(UpTo(k - 1)))

\* C2: a run all of whose forward actions succeed returns a Context with
\* status COMPLETED and a log of N entries, N the number of steps, and no
\* compensation is invoked in a run in which no forward action threw.
T_C2_AllSucceedCompletes ==
    /\ (Returned(settled) /\ ~ActionThrew(settled)) =>
            /\ settled.context[1].status = "COMPLETED"
            /\ Len(settled.context[1].executedSteps) = Len(steps[settled.saga])
            /\ Len(settled.succeeded) = Len(steps[settled.saga])
            /\ settled.compensationCalls = <<>>
    /\ \A r \in RunIds :
            runs[r].compensationCalls # <<>> => ActionThrew(runs[r])

\* C2's case: a saga of two or more steps has run with every action succeeding.
W_C2_AllSucceeded ==
    /\ Returned(settled) /\ ~ActionThrew(settled)
    /\ Len(settled.succeeded) >= 2

\* C3: in every run, second and later runs of the same Saga object included,
\* the compensations invoked are those of the steps whose forward action
\* succeeded in that run, in the reverse of the order they succeeded in.
CX_C3_CompensatesThisRunsSteps ==
    /\ \A r \in RunIds :
            Range(runs[r].compensationCalls) \subseteq Range(runs[r].succeeded)
    /\ Returned(settled) =>
            settled.compensationCalls =
                WithCompensation(settled.saga, Reverse(settled.succeeded))

\* C4: while two calls for the same saga name are in flight, a failing one
\* invokes the compensations of steps that succeeded in it, and of no other.
CX_C4_OverlappingRunsCompensateOwnSteps ==
    \A r, q \in RunIds :
        (r # q /\ InFlight(runs[r]) /\ InFlight(runs[q])
               /\ runs[r].sagaName = runs[q].sagaName)
        => Range(runs[r].compensationCalls) \subseteq Range(runs[r].succeeded)

\* C5: when the compensation of a step j threw, the call still returns its
\* Context, with status COMPENSATED, and the compensation of every step
\* before j that succeeded in the run and has a compensation was invoked
\* after that of j.
T_C5_CompensationFailureIsAbsorbed ==
    (settled.outcome # "none" /\ settled.compensationFailures # <<>>) =>
        /\ Returned(settled)
        /\ settled.context[1].status = "COMPENSATED"
        /\ \A j \in Range(settled.compensationFailures) :
           \A i \in Range(settled.succeeded) :
                (i < j /\ steps[settled.saga][i].hasCompensation)
                => Before(settled.compensationCalls, j, i)

\* C5's case: a compensation threw and an earlier step was still to compensate.
W_C5_FailureBeforeEarlierStep ==
    /\ Returned(settled)
    /\ \E j \in Range(settled.compensationFailures) :
       \E i \in Range(settled.succeeded) :
            i < j /\ steps[settled.saga][i].hasCompensation

\* C6: a call that settles by throwing is a call of a name that is not
\* registered, made in that very step; a call that had a saga to run settles
\* by returning its Context.
T_C6_ThrowsOnlyNotFound ==
    [][/\ (settled' # settled /\ settled'.outcome = "thrown") =>
            /\ calls' = calls + 1
            /\ sagas[settled'.sagaName] = NoSaga
       /\ \A r \in RunIds :
            (InFlight(runs[r]) /\ ~InFlight(runs'[r])) =>
                /\ settled'.outcome = "context"
                /\ settled'.context = runs[r].context
                /\ settled'.context[1].status \in {"COMPLETED", "COMPENSATED"}
      ]_vars

\* C6's case: a forward action failed, a compensation threw, and the call
\* returned.
W_C6_ReturnedAfterFailedCompensation ==
    Returned(settled) /\ settled.compensationFailures # <<>>

\* C7: a call of a name that is not registered settles at once with the
\* not-found error, makes no Context, invokes no action and leaves steps,
\* registry, history and the runs in flight as they were; any other call
\* starts a run of the saga registered under its name.
T_C7_NotFoundChangesNothing ==
    [][calls' # calls =>
        \/ \E r \in RunIds :
                /\ ~InFlight(runs[r]) /\ InFlight(runs'[r])
                /\ sagas[runs'[r].sagaName] # NoSaga
                /\ runs'[r].saga = sagas[runs'[r].sagaName]
        \/ /\ sagas[settled'.sagaName] = NoSaga
           /\ settled'.outcome = "thrown"
           /\ settled'.rejection = NotFoundError(settled'.sagaName)
           /\ settled'.context = <<>>
           /\ settled'.actionCalls = <<>>
           /\ UNCHANGED <<subject, serviceCalls, caller, services, steps, sagas, registrations, executionHistory, maxHistorySize,
                          runs, recorded>>
      ]_vars

\* C7's case: a call was not found while the history held a record.
W_C7_NotFoundWithHistory ==
    /\ settled.outcome = "thrown"
    /\ executionHistory # <<>>

\* C8: the history holds at most maxHistorySize records, and they are the
\* most recent records pushed, in the order they were pushed.
T_C8_HistoryIsBoundedFifo ==
    /\ Len(executionHistory) = Min(recorded, maxHistorySize)
    /\ \A k \in DOMAIN executionHistory :
            executionHistory[k].seq = recorded - Len(executionHistory) + k

\* C8's case: two more records were pushed than the history holds.
W_C8_Evicted ==
    /\ recorded >= maxHistorySize + 2
    /\ Len(executionHistory) >= 2

\* C9: for every limit >= 0, getExecutionHistory(limit) is the last
\* min(limit, length) records of the history.
CX_C9_LimitIsAMaximum ==
    \A limit \in 0..MaxLimit :
        LET len == Len(executionHistory)
            n == Min(limit, len)
        IN  getExecutionHistory(limit) = SubSeq(executionHistory, len - n + 1, len)

\* C10: the counts of getStatistics().byStatus add up to totalExecutions,
\* which is the length of the history.
T_C10_ByStatusSumsToTotal ==
    /\ SumOfValues(getStatistics.byStatus) = getStatistics.totalExecutions
    /\ getStatistics.totalExecutions = Len(executionHistory)

\* C10's case: two records of the history have the same status.
W_C10_StatusCountedTwice ==
    \E status \in DOMAIN getStatistics.byStatus :
        getStatistics.byStatus[status] >= 2

\* The two paths of the status of a Context.
SuccessPath == <<"PENDING", "IN_PROGRESS", "COMPLETED">>
FailurePath == <<"PENDING", "IN_PROGRESS", "FAILED", "COMPENSATING", "COMPENSATED">>
IsPrefix(seq, path) ==
    Len(seq) <= Len(path) /\ seq = SubSeq(path, 1, Len(seq))
\* The Contexts there are: those of the calls in flight and of the settled call.
Contexts ==
    {run.context[1] :
        run \in {x \in {runs[r] : r \in RunIds} \cup {settled} : x.context # <<>>}}

\* C11: the values the status of a Context is given during Saga.execute are
\* an initial part of PENDING, IN_PROGRESS, COMPLETED or of PENDING,
\* IN_PROGRESS, FAILED, COMPENSATING, COMPENSATED, and the status is the last
\* of them; the Context returned has gone through the whole of one of the two
\* paths; a step of the program only adds to the values given so far.
T_C11_StatusFollowsItsPaths ==
    /\ [](/\ \A context \in Contexts :
                /\ IsPrefix(context.statuses, SuccessPath)
                        \/ IsPrefix(context.statuses, FailurePath)
                /\ context.status = context.statuses[Len(context.statuses)]
          /\ Returned(settled) =>
                settled.context[1].statuses \in {SuccessPath, FailurePath})
    /\ [][\A r \in RunIds :
            (runs[r].context # <<>> /\ runs'[r].context # <<>>) =>
                IsPrefix(runs[r].context[1].statuses, runs'[r].context[1].statuses)
         ]_vars

\* C11's case: a run has failed and has been rolled back, and an earlier run
\* of the same Saga object succeeded.
W_C11_BothPathsTaken ==
    /\ Returned(settled)
    /\ settled.context[1].statuses = FailurePath
    /\ settled.context[1].sagaId = 2
    /\ \E k \in DOMAIN executionHistory : executionHistory[k].status = "COMPLETED"

\* C12: when every forward action and every compensation that is invoked
\* settles, a call in flight leads to that call having returned its Context
\* with status COMPLETED or COMPENSATED.
T_C12_EveryRunReturns ==
    \A r \in RunIds :
        InFlight(runs[r]) ~>
            (/\ ~InFlight(runs[r])
             /\ Returned(settled)
             /\ settled.context[1].status \in {"COMPLETED", "COMPENSATED"})

\* C12's case: a call whose forward action threw has returned while another
\* call is in flight.
W_C12_ReturnedWhileOtherInFlight ==
    /\ Returned(settled)
    /\ settled.context[1].status = "COMPENSATED"
    /\ \E r \in RunIds : InFlight(runs[r])

\* What the forward action that threw in the call has thrown.
FailureOf(run) == run.raised[1]
\* The call is past the catch of Saga.execute.
RollingBack(run) ==
    run.pc \in {"compensation", "compDone", "compFailed"}
        \/ (run.pc = "returned" /\ ActionThrew(run))

\* C13: from the catch of Saga.execute on, during the rollback and in the
\* Context returned, the error of the Context is what the forward action that
\* failed has thrown, whatever the compensations threw; the Context of a call
\* none of whose forward actions threw has no error.
CX_C13_ErrorIsTheActionsError ==
    \A run \in {runs[r] : r \in RunIds} \cup {settled} :
        run.context # <<>> =>
            /\ RollingBack(run) => run.context[1].error = FailureOf(run)
            /\ ~ActionThrew(run) => run.context[1].error = Null

Last(seq) == seq[Len(seq)]
\* The records of seq but the last one.
Front(seq) == SubSeq(seq, 1, Len(seq) - 1)

\* C14: the step in which a call returns its Context pushes one record: the
\* history becomes the old one, less its oldest record when it was full,
\* followed by a record of the name called, with the Context's sagaId and
\* status, the length of its log and the message of its error, null when it
\* has none; no other step adds a record.
T_C14_ReturnRecordsTheContext ==
    [][IF \E r \in RunIds : InFlight(runs[r]) /\ ~InFlight(runs'[r])
       THEN LET context == settled'.context[1]
                record == Last(executionHistory')
            IN  /\ Returned(settled')
                /\ recorded' = recorded + 1
                /\ executionHistory' # <<>>
                /\ Front(executionHistory') =
                        IF Len(executionHistory) < maxHistorySize
                        THEN executionHistory
                        ELSE Tail(executionHistory)
                /\ record.sagaName = settled'.sagaName
                /\ record.sagaId = context.sagaId
                /\ record.status = context.status
                /\ record.executedSteps = Len(context.executedSteps)
                /\ record.error = IF context.error = Null
                                  THEN Null
                                  ELSE MessageOf(context.error)
       ELSE executionHistory' \in {executionHistory, <<>>}
      ]_vars

\* C14's case: a call that failed has returned and has been recorded in a
\* history that was full.
W_C14_FailureRecordedWhenFull ==
    /\ Returned(settled)
    /\ settled.context[1].error # Null
    /\ recorded > maxHistorySize
    /\ Last(executionHistory).sagaId = settled.context[1].sagaId
    /\ Last(executionHistory).error = MessageOf(settled.context[1].error)

\* The saga the registerSaga calls so far leave under the name.
LastRegistered(name) ==
    IF registrations[name] = <<>> THEN NoSaga ELSE Last(registrations[name])

\* C15: the registry maps a name to the saga of the last registerSaga call
\* with that name, so that a second registration of a name replaces the first
\* and the repeated registration of the same saga changes nothing; it has as
\* many entries as names were registered; a call of a registered name runs
\* the steps of the saga registered last.
T_C15_LastRegistrationWins ==
    /\ [](/\ \A name \in SagaNames : sagas[name] = LastRegistered(name)
          /\ getStatistics.registeredSagas =
                Cardinality({name \in SagaNames : registrations[name] # <<>>}))
    /\ [][\A r \in RunIds :
            (~InFlight(runs[r]) /\ InFlight(runs'[r])) =>
                /\ runs'[r].saga = LastRegistered(runs'[r].sagaName)
                /\ runs'[r].actionCalls =
                        IF steps[LastRegistered(runs'[r].sagaName)] = <<>>
                        THEN <<>> ELSE <<1>>
         ]_vars

\* C15's case: s1 and then s2 were registered under the name, s1 has a step
\* and s2 has none, and a call of the name has returned having invoked no
\* action.
W_C15_SecondSagaRuns ==
    /\ registrations["PaymentProcessing"] = <<"s1", "s2">>
    /\ steps["s1"] # <<>> /\ steps["s2"] = <<>>
    /\ Returned(settled)
    /\ settled.saga = "s2"
    /\ settled.actionCalls = <<>>

\* The forward actions and compensations the call has invoked, and those of
\* them that have returned or thrown.
Invoked(run) == Len(run.actionCalls) + Len(run.compensationCalls)
SettledOf(run) ==
    Len(run.succeeded) + Len(run.raised)
        + Len(run.compensations) + Len(run.compensationFailures)

\* C16: of the forward actions and compensations a call has invoked, at most
\* one has not settled, and none when the call has returned; a step of the
\* call invokes at most one, and only when all it invoked before have
\* settled.
T_C16_OneInFlightPerRun ==
    /\ [](/\ \A r \in RunIds : Invoked(runs[r]) - SettledOf(runs[r]) \in {0, 1}
          /\ Invoked(settled) = SettledOf(settled))
    /\ [][\A r \in RunIds :
            (InFlight(runs'[r]) /\ Invoked(runs'[r]) # Invoked(runs[r])) =>
                /\ Invoked(runs'[r]) = Invoked(runs[r]) + 1
                /\ SettledOf(runs[r]) = Invoked(runs[r])
                /\ SettledOf(runs'[r]) = SettledOf(runs[r])
         ]_vars

\* C16's case: the second compensation of a rollback is in flight, after
\* two forward actions and the first compensation have settled.
W_C16_SecondCompensationInFlight ==
    \E r \in RunIds :
        /\ runs[r].pc = "compensation"
        /\ Len(runs[r].compensationCalls) = 2
        /\ Len(runs[r].succeeded) = 2
        /\ SettledOf(runs[r]) = Invoked(runs[r]) - 1

\* The calls that have a Context: in flight, or settled.
WithContext ==
    {run \in {runs[r] : r \in RunIds} \cup {settled} : run.context # <<>>}
\* The value of the property in the object the call was given.
InitialValue(run, key) ==
    IF key \in DOMAIN run.initialData THEN run.initialData[key] ELSE Undefined

\* C17: the Context of a call is the one Saga.execute made for that call, the
\* forward actions and compensations of the call were all given that
\* Context, and get(key) on it is the value the call was given as initial
\* data or the value an action of that same call has set, whatever the
\* other calls in flight have set under the key.
T_C17_ContextIsTheRunsOwn ==
    \A run \in WithContext :
        /\ run.context[1].sagaId = run.call
        /\ \A k \in DOMAIN run.received : run.received[k] = run.call
        /\ Len(run.received) = Invoked(run)
        /\ \A key \in Range(StepNames) :
                get(run.context[1], key) \in
                    {InitialValue(run, key), ValueOf(key, run.call)}

\* C17's case: two calls in flight were given an object with the property A;
\* an action of one has set A, and get("A") of the other is the initial one.
W_C17_OtherRunSeesInitialValue ==
    \E r, q \in RunIds :
        /\ r # q /\ InFlight(runs[r]) /\ InFlight(runs[q])
        /\ InitialValue(runs[r], "A") = <<"initial">>
        /\ get(runs[r].context[1], "A") = ValueOf("A", runs[r].call)
        /\ runs[q].received # <<>>
        /\ get(runs[q].context[1], "A") = <<"initial">>

\* The sagaIds of the records of the history, in its order.
RecordedIds == [k \in DOMAIN executionHistory |-> executionHistory[k].sagaId]

\* C18: with calls overlapping, the history holds min(k, maxHistorySize)
\* records, k the number of calls that have returned, no two of them of the
\* same call and none of a call in flight; the step in which a call returns
\* puts the record of that call after the records there are, dropping only
\* the oldest one when the history was full, and no other step changes the
\* history: the records are in the order the calls returned.
T_C18_OneRecordPerReturnInOrder ==
    /\ [](/\ Len(executionHistory) = Min(recorded, maxHistorySize)
          /\ \A i, j \in DOMAIN RecordedIds :
                i # j => RecordedIds[i] # RecordedIds[j]
          /\ \A r \in RunIds :
                InFlight(runs[r]) => runs[r].call \notin Range(RecordedIds)
          /\ recorded <= calls - Cardinality({r \in RunIds : InFlight(runs[r])}))
    /\ [][IF \E r \in RunIds : InFlight(runs[r]) /\ ~InFlight(runs'[r])
           THEN \E r \in RunIds :
                    /\ InFlight(runs[r]) /\ ~InFlight(runs'[r])
                    /\ recorded' = recorded + 1
                    /\ RecordedIds' =
                            (IF Len(RecordedIds) < maxHistorySize
                             THEN RecordedIds
                             ELSE Tail(RecordedIds)) \o <<runs[r].call>>
           ELSE /\ recorded' = recorded
                /\ executionHistory' = executionHistory
         ]_vars

\* C18's case: of two overlapping calls the second one returned first, and
\* the history holds the record of the second and then that of the first.
W_C18_ReturnedInOtherOrder ==
    /\ RecordedIds = <<2, 1>>
    /\ recorded = 2

NoDuplicates(seq) ==
    \A p, q \in DOMAIN seq : p # q => seq[p] # seq[q]

\* C19: in a call, no step has its forward action invoked twice and no step
\* has its compensation invoked twice.
T_C19_InvokedAtMostOnce ==
    \A run \in {runs[r] : r \in RunIds} \cup {settled} :
        /\ NoDuplicates(run.actionCalls)
        /\ NoDuplicates(run.compensationCalls)

\* C19's case: the second call of a Saga object has been rolled back with
\* two compensations invoked, one of which threw.
W_C19_SecondRunRolledBack ==
    /\ Returned(settled)
    /\ settled.call = 2
    /\ Len(settled.compensationCalls) >= 2
    /\ settled.compensationFailures # <<>>

\* C20: in a rollback, compensate is called on every step of the filtered
\* list, last to first, those without a compensation included; such a step
\* has no compensation invoked, throws nothing and is never marked
\* compensated; the compensations of the other steps visited are all
\* invoked, and the call returns with status COMPENSATED.
T_C20_StepWithoutCompensationIsSkipped ==
    /\ \A s \in SagaIds : \A i \in DOMAIN steps[s] :
            ~steps[s][i].hasCompensation => ~steps[s][i].compensated
    /\ \A run \in {runs[r] : r \in RunIds} \cup {settled} :
        \A i \in Range(run.visited) :
            ~steps[run.saga][i].hasCompensation =>
                /\ i \notin Range(run.compensationCalls)
                /\ i \notin Range(run.compensationFailures)
    /\ (Returned(settled) /\ ActionThrew(settled)) =>
            /\ settled.visited = Reverse(settled.executedSteps)
            /\ settled.compensationCalls =
                    WithCompensation(settled.saga, settled.visited)
            /\ settled.context[1].status = "COMPENSATED"

\* C20's case: in a first call the steps A, with a compensation, and B,
\* without one, succeeded and C failed; B was visited and skipped, and the
\* compensation of A was invoked after that.
W_C20_SkippedThenCompensated ==
    /\ Returned(settled)
    /\ settled.call = 1
    /\ settled.succeeded = <<1, 2>>
    /\ ~steps[settled.saga][2].hasCompensation
    /\ settled.visited = <<2, 1>>
    /\ settled.compensationCalls = <<1>>
    /\ settled.context[1].status = "COMPENSATED"

\* C21: a call of a saga that has no steps returns a Context with status
\* COMPLETED, an empty log and no error, having invoked nothing.
T_C21_NoStepsCompletes ==
    (Returned(settled) /\ steps[settled.saga] = <<>>) =>
        /\ settled.context[1].status = "COMPLETED"
        /\ settled.context[1].statuses = SuccessPath
        /\ settled.context[1].executedSteps = <<>>
        /\ settled.context[1].error = Null
        /\ Invoked(settled) = 0

\* C21's case: the second call of a saga without steps has returned.
W_C21_EmptySagaRanTwice ==
    /\ Returned(settled)
    /\ steps[settled.saga] = <<>>
    /\ settled.call = 2
    /\ recorded = 2

----------------------------------------------------------------------------
\* The step of the saga whose forward action threw in the run.
FailedStep(run) == steps[run.saga][Last(run.actionCalls)].name
\* The run of PaymentProcessingSaga failed at ProcessPayment or at
\* CreateShipment and ended COMPENSATED.
RolledBackAfterInventory(run) ==
    /\ Returned(run) /\ run.raised # <<>>
    /\ FailedStep(run) \in {"ProcessPayment", "CreateShipment"}
    /\ run.context[1].status = "COMPENSATED"
\* The order the run created, as the OrderService has it.
OrderOf(run) == services.orders[get(run.context[1], "orderId")[2]]
\* The reservation the run made, as the InventoryService has it.
ReservationOf(run) == services.reservations[get(run.context[1], "reservationId")[2]]

----------------------------------------------------------------------------
\* SagaStep.execute of the step at the for loop of run r fails in this step.
ExecuteFails(r) == runs[r].pc = "action" /\ runs'[r].pc = "stepFailed"

\* C23: whenever SagaStep.execute fails, the executed flag of the step is
\* false afterwards, the error is stored on the step, nothing is appended to
\* the log of the Context, and the failure stored is what the caller catches.
CX_C23_FailedExecuteLeavesStepUnexecuted ==
    [][\A r \in RunIds :
            ExecuteFails(r) =>
                LET step == steps'[runs[r].saga][runs[r].idx] IN
                /\ ~step.executed
                /\ step.error # Null
                /\ runs'[r].thrown = step.error
                /\ runs'[r].context[1].executedSteps
                        = runs[r].context[1].executedSteps]_vars

----------------------------------------------------------------------------
\* SagaStep.compensate of the step at the rollback of run r fails in this step.
CompensateFails(r) == runs[r].pc = "compensation" /\ runs'[r].pc = "compFailed"
\* The step at the for loop of Saga.compensate of the run, as it is after
\* this step.
Compensating(run) == steps'[run.saga][run.executedSteps[run.ci]]

\* C24: when the compensation of a step throws, SagaStep.compensate stores
\* the error in the error field of the step, leaves compensated false and
\* throws the error to its caller.
CX_C24_FailedCompensationIsStoredOnStep ==
    [][\A r \in RunIds :
            CompensateFails(r) =>
                /\ Compensating(runs[r]).error = runs'[r].thrown
                /\ ~Compensating(runs[r]).compensated]_vars

----------------------------------------------------------------------------
\* The caller calls compensate of step i of saga s in this step.
CompensateCalled(r, s, i) ==
    /\ runs[r].pc = "idle" /\ runs'[r].pc # "idle"
    /\ runs'[r].saga = s /\ runs'[r].visited = <<i>>
\* A call of compensate that the method skipped settles for the caller.
SkippedSettles(r) ==
    /\ runs[r].pc = "compDone" /\ runs[r].compensationCalls = <<>>
    /\ runs'[r].pc = "idle"

\* C25: compensate of a step whose executed flag is false does nothing: the
\* compensation is not invoked, the step and the Context stay as they are,
\* and the call returns without an error.
T_C25_CompensateOfUnexecutedIsNoOp ==
    [][\A r \in RunIds :
        /\ \A s \in SagaIds : \A i \in DOMAIN steps[s] :
                (CompensateCalled(r, s, i) /\ ~steps[s][i].executed) =>
                    /\ steps' = steps
                    /\ runs'[r].compensationCalls = <<>>
                    /\ runs'[r].pc = "compDone"
                    /\ runs'[r].context = <<NewSagaContext(calls', EmptyObject)>>
        /\ SkippedSettles(r) =>
                /\ steps' = steps
                /\ settled'.outcome = "returned"
                /\ settled'.context = runs[r].context]_vars

\* compensate of a step that has a compensation and whose action had thrown
\* was called, and returned: the step still has the error of its action.
W_C25_SkippedAfterFailedExecute ==
    /\ settled.outcome = "returned" /\ settled.visited # <<>>
    /\ settled.compensationCalls = <<>>
    /\ LET step == steps[settled.saga][settled.visited[1]] IN
            step.hasCompensation /\ ~step.executed /\ step.error # Null

----------------------------------------------------------------------------
----------------------------------------------------------------------------
\* In the rollback of the run the compensation of step b threw and that of
\* step a, visited after it, returned.
ThrewThenSucceeded(run, b, a) ==
    /\ b \in Range(run.compensationFailures)
    /\ a \in Range(run.compensations)
    /\ Before(run.visited, b, a)

\* C27: after a rollback in which the compensation of step B threw and that
\* of step A then returned, B is not compensated and holds the failure of
\* its compensation, and A is compensated.
CX_C27_BothAttemptsRecordedOnSteps ==
    \A b, a \in 1..MaxSteps :
        (Returned(settled) /\ ThrewThenSucceeded(settled, b, a)) =>
            LET B == steps[settled.saga][b]
                A == steps[settled.saga][a]
            IN  /\ ~B.compensated
                /\ B.error \in {CompensationError(B.name), NoMessageError}
                /\ A.compensated

----------------------------------------------------------------------------
\* The flags of a step of saga s change in this step while no call is in
\* flight, as they do in reset() only.
ResetIn(s) ==
    /\ NoRunInFlight
    /\ Len(steps'[s]) = Len(steps[s])
    /\ steps'[s] # steps[s]

\* C28: after Saga.reset() every step is as a newly constructed step is,
\* whatever the earlier runs left on it, and a call that finds the saga so
\* invokes the actions in the order of the steps up to the first one that
\* throws and rolls back the steps whose action returned in that call, in
\* reverse, as a call of a newly constructed saga does.
T_C28_ResetMakesStepsFresh ==
    /\ [][\A s \in SagaIds :
            ResetIn(s) => \A i \in DOMAIN steps'[s] : Fresh(steps'[s][i])]_vars
    /\ [](\A r \in RunIds :
            LET run == runs[r] IN
            (InFlight(run) /\ run.fresh) =>
                /\ run.actionCalls = [i \in 1..Len(run.actionCalls) |-> i]
                /\ IsPrefix(run.visited, Reverse(run.succeeded))
                /\ IsPrefix(run.compensationCalls,
                            WithCompensation(run.saga, Reverse(run.succeeded)))
                /\ run.pc = "returned" /\ ActionThrew(run)
                        => run.visited = Reverse(run.succeeded))

\* The second call found the saga reset after a first call that had executed
\* steps, and rolled back a step of its own.
W_C28_RolledBackAfterReset ==
    /\ Returned(settled) /\ settled.call = 2
    /\ settled.fresh
    /\ Len(executionHistory) = 2 /\ executionHistory[1].executedSteps > 0
    /\ settled.compensations # <<>>

----------------------------------------------------------------------------
\* The statuses a run ends in.
Terminal == {"COMPLETED", "COMPENSATED"}

\* C29: the end time of a Context is set when its status is COMPLETED or
\* COMPENSATED, and is null in every other status.
CX_C29_EndTimeOnlyWhenTerminal ==
    \A context \in Contexts : context.endTime <=> context.status \in Terminal

----------------------------------------------------------------------------
\* How far along its path a status is: PENDING, IN_PROGRESS, then COMPLETED,
\* or FAILED, COMPENSATING, COMPENSATED.
Rank(status) ==
    CASE status = "PENDING" -> 0
      [] status = "IN_PROGRESS" -> 1
      [] status = "COMPLETED" -> 2
      [] status = "FAILED" -> 2
      [] status = "COMPENSATING" -> 3
      [] status = "COMPENSATED" -> 4

\* C30: whatever methods of the Context are called in whatever order, its
\* status does not move backwards and does not leave COMPLETED or COMPENSATED.
CX_C30_StatusIsMonotonic ==
    [][LET status == settled.context[1].status
           next == settled'.context[1].status
       IN  /\ Rank(next) >= Rank(status)
           /\ status \in Terminal => next = status]_vars

----------------------------------------------------------------------------
\* The log and the mapping of a Context are its own

\* The log after a step is the log before it, or that with one entry more.
GrowsOrStays(log, after) ==
    \/ after = log
    \/ Len(after) = Len(log) + 1 /\ SubSeq(after, 1, Len(log)) = log

\* C31: every operation on a Context leaves its executed-step log as it was
\* or appends one entry at its end, and a change the caller makes to the list
\* getExecutedSteps() returned leaves the log as it was.
T_C31_LogOnlyGrows ==
    [][HasContext =>
        /\ GrowsOrStays(TheContext.executedSteps, TheContext'.executedSteps)
        /\ (\E method \in {"push", "pop"} : ChangeList(method)) =>
                TheContext'.executedSteps = TheContext.executedSteps]_vars

\* The caller has pushed an entry onto the list it was given while the log
\* held an entry, and the log has no such entry.
W_C31_CallerChangedItsList ==
    /\ HasContext /\ caller.list # <<>>
    /\ TheContext.executedSteps # <<>>
    /\ \E i \in DOMAIN caller.list[1] : caller.list[1][i].stepName = "Z"
    /\ \A i \in DOMAIN TheContext.executedSteps :
            TheContext.executedSteps[i].stepName # "Z"

\* C35: set(key, value) leaves the initialData the caller passed to the
\* constructor as it was, and a change the caller makes to the object
\* getAll() returned leaves what get(key) returns as it was, for every key.
T_C35_DataIsPrivate ==
    [][HasContext =>
        /\ (\E key \in Keys, value \in Values : Set(key, value)) =>
                caller'.initialData = caller.initialData
        /\ (\E key \in Keys, value \in Values : ChangeSnapshot(key, value)) =>
                \A key \in Keys : get(TheContext', key) = get(TheContext, key)]_vars

\* set has given the Context a value that the caller's initialData does not
\* have, and the caller has given the object from getAll a property that the
\* Context does not have.
W_C35_SetAndSnapshotChanged ==
    /\ HasContext /\ caller.snapshot # <<>>
    /\ caller.initialData = <<[A |-> <<"initial">>]>>
    /\ get(TheContext, "A") = <<"changed">>
    /\ "B" \in DOMAIN caller.snapshot[1]
    /\ get(TheContext, "B") = Undefined

----------------------------------------------------------------------------
\* The log of a run

\* The step names the log of a Context lists, in its order.
LoggedNames(context) ==
    [k \in 1..Len(context.executedSteps) |-> context.executedSteps[k].stepName]

\* The log of the Context of a call lists the names of the steps whose forward
\* action has returned in that call, which are the first steps of the saga.
LogIsSucceededPrefix(run) ==
    run.context # <<>> =>
        /\ Len(run.succeeded) <= Len(steps[run.saga])
        /\ run.succeeded = [k \in 1..Len(run.succeeded) |-> k]
        /\ LoggedNames(run.context[1]) =
                [k \in 1..Len(run.succeeded) |-> steps[run.saga][k].name]

\* C32: at every point of a run, and after it, the log of its Context lists
\* the names of the steps whose forward action has returned in that run, in
\* the order of the steps, and these are the first steps of the saga.
T_C32_LogIsPrefixOfSteps ==
    /\ \A r \in RunIds : LogIsSucceededPrefix(runs[r])
    /\ LogIsSucceededPrefix(settled)

\* A second call on a saga of three steps, all of them executed in the call
\* before, has logged the first two and the third has thrown.
W_C32_SecondRunLoggedTwo ==
    \E r \in RunIds :
        /\ runs[r].call = 2 /\ runs[r].context # <<>>
        /\ Len(steps[runs[r].saga]) = 3
        /\ \A i \in 1..3 : steps[runs[r].saga][i].executed
        /\ Len(runs[r].context[1].executedSteps) = 2
        /\ runs[r].raised # <<>>

----------------------------------------------------------------------------
\* Statistics of the retained records

\* The records the history holds that satisfy a condition, by their positions.
Retained(Condition(_)) ==
    {k \in DOMAIN executionHistory : Condition(executionHistory[k])}

\* The count an object of counts has for a key: none is no property.
CountOf(counts, key) == IF key \in DOMAIN counts THEN counts[key] ELSE 0

\* The sum of the durations of the first n records of the history.
RECURSIVE DurationsOf(_)
DurationsOf(n) ==
    IF n = 0 THEN 0 ELSE DurationsOf(n - 1) + executionHistory[n].duration

\* C33: totalExecutions is at most maxHistorySize; bySaga and byStatus give,
\* for every saga name and status, the number of records the history holds
\* with it, and have no other key; averageDuration is the integer nearest to
\* the mean of the durations of the records the history holds, the greater
\* of two that are equally near, and 0 when it holds none.
T_C33_StatisticsOverRetained ==
    LET stats == getStatistics
        n == Len(executionHistory)
    IN  /\ stats.totalExecutions <= maxHistorySize
        /\ stats.totalExecutions = n
        /\ \A name \in SagaNames :
                LET Named(record) == record.sagaName = name IN
                CountOf(stats.bySaga, name) = Cardinality(Retained(Named))
        /\ DOMAIN stats.bySaga \subseteq SagaNames
        /\ \A status \in Statuses :
                LET With(record) == record.status = status IN
                CountOf(stats.byStatus, status) = Cardinality(Retained(With))
        /\ DOMAIN stats.byStatus \subseteq Statuses
        /\ n = 0 => stats.averageDuration = 0
        /\ n > 0 =>
            /\ 2 * n * stats.averageDuration <= 2 * DurationsOf(n) + n
            /\ 2 * DurationsOf(n) + n < 2 * n * (stats.averageDuration + 1)

\* Records have been pushed out of a history that holds two, one that took
\* no time and one that took 1: their mean, 1/2, is rounded to 1.
W_C33_HalfRoundedAfterEviction ==
    /\ recorded > Len(executionHistory)
    /\ Len(executionHistory) = 2
    /\ DurationsOf(2) = 1
    /\ getStatistics.averageDuration = 1

----------------------------------------------------------------------------
\* The names of the steps of a saga

\* C34: no two steps of a saga have the same name.
CX_C34_StepNamesAreUnique ==
    \A s \in SagaIds :
        \A i, j \in DOMAIN steps[s] :
            i # j => steps[s][i].name # steps[s][j].name

----------------------------------------------------------------------------
\* Stock and reservations

\* The quantity the items from position i on ask of a product.
RECURSIVE QuantityOf(_, _, _)
QuantityOf(items, productId, i) ==
    IF i > Len(items)
    THEN 0
    ELSE QuantityOf(items, productId, i + 1)
            + (IF items[i].productId = productId THEN items[i].quantity ELSE 0)

\* The quantity of a product that the first n reservations hold: that of
\* those that have not been released.
RECURSIVE HeldOf(_, _)
HeldOf(productId, n) ==
    IF n = 0
    THEN 0
    ELSE HeldOf(productId, n - 1)
            + (IF services.reservations[n].status = "RESERVED"
               THEN QuantityOf(services.reservations[n].items, productId, 1)
               ELSE 0)

\* The releaseInventory calls of a reservation that have settled with a status.
Releases(reservationId, status) ==
    {k \in DOMAIN serviceCalls :
        /\ Settled(k)
        /\ serviceCalls[k].method = "releaseInventory"
        /\ serviceCalls[k].reservationId = reservationId
        /\ serviceCalls[k].error = Null
        /\ serviceCalls[k].value[2].status = status}

Reservations == {Id("RES", n) : n \in DOMAIN services.reservations}

\* C36: however many releaseInventory calls of a reservation have settled,
\* overlapping or not, the stock of every product is the initial stock less
\* what the reservations not released hold, so that what a reservation held
\* was added back once; one of the calls has reported RELEASED and every
\* other ALREADY_RELEASED.
T_C36_ReleaseIsIdempotent ==
    /\ \A productId \in DOMAIN InitialInventory :
            services.inventory[productId] =
                InitialInventory[productId]
                    - HeldOf(productId, Len(services.reservations))
    /\ \A reservationId \in Reservations :
            LET released == Releases(reservationId, "RELEASED")
                already == Releases(reservationId, "ALREADY_RELEASED")
            IN  /\ Cardinality(released) <= 1
                /\ already # {} => released # {}
                /\ released # {} <=>
                        services.reservations[reservationId[2]].status = "RELEASED"
                /\ \A k \in DOMAIN serviceCalls :
                        /\ Settled(k)
                        /\ serviceCalls[k].method = "releaseInventory"
                        /\ serviceCalls[k].reservationId = reservationId
                        => k \in released \cup already

\* Two releaseInventory calls of one reservation, the second made while the
\* first was in its delay, have settled: one with RELEASED, the other with
\* ALREADY_RELEASED.
W_C36_OverlappingReleases ==
    \E reservationId \in Reservations :
        \E j \in Releases(reservationId, "RELEASED") :
            \E k \in Releases(reservationId, "ALREADY_RELEASED") :
                j \in serviceCalls[k].during \/ k \in serviceCalls[j].during

\* C38: the stock of no product is negative.
CX_C38_StockIsNeverNegative ==
    \A productId \in DOMAIN services.inventory :
        services.inventory[productId] >= 0

\* Call k is a reserveInventory call that has thrown.
ReserveThrew(k) ==
    /\ Settled(k)
    /\ serviceCalls[k].method = "reserveInventory"
    /\ serviceCalls[k].error # Null

\* C39: the step in which a reserveInventory call throws leaves the stock of
\* every product and the reservations as they were.
T_C39_ReserveIsAllOrNothing ==
    [][\A k \in DOMAIN serviceCalls :
        InDelay(k) /\ ReserveThrew(k)' =>
            /\ services'.inventory = services.inventory
            /\ services'.reservations = services.reservations]_vars

\* A reserveInventory call has thrown at its second item, the stock covering
\* its first, and the stock of the first product is what it was initially.
W_C39_ThrewAtSecondItem ==
    \E k \in DOMAIN serviceCalls :
        /\ ReserveThrew(k)
        /\ Len(serviceCalls[k].items) = 2
        /\ serviceCalls[k].error[1][2] = serviceCalls[k].items[2].productId
        /\ serviceCalls[k].items[1].productId # serviceCalls[k].items[2].productId
        /\ services.inventory[serviceCalls[k].items[1].productId] =
                InitialInventory[serviceCalls[k].items[1].productId]

----------------------------------------------------------------------------
\* What the caller sees of a run that has returned

\* C37: the Context that Saga.execute has returned, and that executeSaga has
\* returned to its caller, has the status COMPLETED or COMPENSATED, and so
\* has every record of the history.
T_C37_ReturnedIsTerminal ==
    /\ \A r \in RunIds :
            runs[r].pc = "returned" => runs[r].context[1].status \in Terminal
    /\ Returned(settled) => settled.context[1].status \in Terminal
    /\ \A k \in DOMAIN executionHistory :
            executionHistory[k].status \in Terminal

\* The history holds a COMPLETED and a COMPENSATED record, and the call that
\* has returned is one in which a compensation threw.
W_C37_ReturnedAfterFailedCompensation ==
    /\ Returned(settled)
    /\ settled.compensationFailures # <<>>
    /\ settled.context[1].status = "COMPENSATED"
    /\ {executionHistory[k].status : k \in DOMAIN executionHistory} = Terminal

----------------------------------------------------------------------------
\* What notify delivers

\* The ids of the observers of a Map, in its order.
IdsOf(observers) == [k \in 1..Len(observers) |-> observers[k].observerId]

\* C40: a call of notify calls the update of every observer attached, in the
\* order they were attached in, and throws nothing, whatever the updates throw.
CX_C40_NotifyReachesEveryObserver ==
    subject.notified # <<>> =>
        /\ subject.notified[1].updated = IdsOf(subject.notified[1].observers)
        /\ subject.notified[1].thrown = Null

====
